---- MODULE Spec2Model ----
(***************************************************************************)
(* Stock chart pattern drawing tool (ajay7868/marketData).                 *)
(*                                                                         *)
(* The model covers the pattern codec of the three data handlers           *)
(* (DataHandler, UltraSimpleDataHandler, WebDataHandler), the stroke       *)
(* recorder of the tkinter canvases and the nearest-time lookup of the     *)
(* preview redraw.                                                         *)
(*                                                                         *)
(* Representation of Python values:                                        *)
(*   - a number is a record [ty, val]: ty is "int" or "float", val is an   *)
(*     exact rational <<n, d>> in lowest terms (floats are modelled as     *)
(*     exact rationals, rounding error is not modelled);                   *)
(*   - a str is a record with a kind k: a timestamp text                   *)
(*     [k |-> "dt", fmt, pad, t] (layout, zero padded or not, the instant  *)
(*     it denotes in seconds), a numeric literal [k |-> "num", val, dot],  *)
(*     or any other text [k |-> "junk"];                                   *)
(*   - a datetime object is its number of seconds (an integer);            *)
(*   - a stroke point is the tuple <<time_str, price>>, a stroke a         *)
(*     sequence of points, a PatternSet a sequence of strokes;             *)
(*   - a CSV file is [header, rows]; a row is the dict csv.DictReader      *)
(*     yields: a record whose fields are the header's columns.             *)
(***************************************************************************)
EXTENDS Integers, Sequences, FiniteSets, TLC

VARIABLES
    drawing_enabled,   \* canvas.drawing_enabled
    is_drawing,        \* canvas.is_drawing
    current_stroke,    \* canvas.current_stroke
    all_strokes,       \* canvas.all_strokes (the completed PatternSet)
    market_data,       \* canvas.market_data / handler.market_data (None or a series)
    pattern_strokes,   \* data_handler.pattern_strokes
    csvfile,           \* the pattern file on disk (NoFile when absent)
    sample_strokes,    \* the caller's PatternSet handed to export (test_workflow.py)
    ret,               \* what the last operation returned or raised
    calls,             \* the data-handler calls the last canvas handler made
    ranges,            \* canvas.min_price, max_price, min_time, max_time
    preview,           \* the stroke lines the last redraw created on the tk canvas
    aliases,           \* pairs <<i, j>>: all_strokes[i] and the caller's
                       \* sample_strokes[j] are one and the same list object
    handler,           \* the class of the data handler the application created
    requests           \* web variant: the state of each request being handled

vars == <<drawing_enabled, is_drawing, current_stroke, all_strokes, market_data,
          pattern_strokes, csvfile, sample_strokes, ret, calls, ranges, preview,
          aliases, handler, requests>>

-----------------------------------------------------------------------------
(* Bounds of the model.                                                    *)

MaxRows == 3
MaxTick == 4
MaxSampleStrokes == 2
MaxSamplePoints == 4
MaxTotalPoints == 4
MaxBars == 3
MantissaBits == 12
MaxSessionPoints == 2
MaxRequests == 2

-----------------------------------------------------------------------------
(* Exact rationals <<n, d>>, d > 0, in lowest terms.                       *)

Abs(n) == IF n < 0 THEN -n ELSE n

RECURSIVE GCD(_, _)
GCD(a, b) == IF b = 0 THEN a ELSE GCD(b, a % b)

Rat(n, d) ==
    LET s == IF d < 0 THEN -1 ELSE 1
        g == GCD(Abs(n), Abs(d))
    IN  <<(s * n) \div g, (s * d) \div g>>

RatInt(n) == <<n, 1>>
RatAdd(a, b) == Rat(a[1] * b[2] + b[1] * a[2], a[2] * b[2])
RatSub(a, b) == Rat(a[1] * b[2] - b[1] * a[2], a[2] * b[2])
RatMul(a, b) == Rat(a[1] * b[1], a[2] * b[2])
RatDiv(a, b) == Rat(a[1] * b[2], a[2] * b[1])
RatLe(a, b) == a[1] * b[2] <= b[1] * a[2]
RatLt(a, b) == a[1] * b[2] < b[1] * a[2]

\* floor(r) and the nearest integer to r (halves go to the even neighbour, as
\* Python's round does), for r >= 0.
FloorOf(r) == r[1] \div r[2]
RoundOf(r) ==
    LET f == FloorOf(r)
        twice == RatSub(RatMul(RatInt(2), r), RatInt(2 * f))
    IN  IF RatLt(twice, RatInt(1)) THEN f
        ELSE IF RatLt(RatInt(1), twice) THEN f + 1
        ELSE IF f % 2 = 0 THEN f ELSE f + 1

-----------------------------------------------------------------------------
(* Python floats: binary floating point, every operation rounded to the     *)
(* nearest value with a MantissaBits-bit significand (ties to even).  The   *)
(* significand is wide enough for every integer of the chart geometry to be *)
(* exact, as it is in a double.                                             *)

RECURSIVE Pow2(_)
Pow2(n) == IF n = 0 THEN 1 ELSE 2 * Pow2(n - 1)

TwoToMantissa == Pow2(MantissaBits)

\* Scale n/d > 0 by powers of two into [2^(MantissaBits-1), 2^MantissaBits):
\* the result <<n2, d2, e>> has n/d = (n2/d2) * 2^e.
RECURSIVE Normalize(_, _, _)
Normalize(n, d, e) ==
    IF n >= d * TwoToMantissa THEN Normalize(n, 2 * d, e + 1)
    ELSE IF 2 * n < d * TwoToMantissa THEN Normalize(2 * n, d, e - 1)
    ELSE <<n, d, e>>

\* The integer nearest to n/d (n, d > 0), ties to even.
NearestEven(n, d) ==
    LET f == n \div d
        twice_rem == 2 * (n % d)
    IN  IF twice_rem < d THEN f
        ELSE IF twice_rem > d THEN f + 1
        ELSE IF f % 2 = 0 THEN f ELSE f + 1

PowersOfTwo == {Pow2(k) : k \in 0..30}

\* The float nearest to the rational r: r itself when it is m / 2^k with
\* |m| < 2^MantissaBits, the rounded significand times the power otherwise.
FloatRound(r) ==
    IF Abs(r[1]) < TwoToMantissa /\ r[2] \in PowersOfTwo THEN r
    ELSE LET ne == Normalize(Abs(r[1]), r[2], 0)
             m == NearestEven(ne[1], ne[2])
             sign == IF r[1] < 0 THEN -1 ELSE 1
         IN  IF ne[3] >= 0 THEN Rat(sign * m * Pow2(ne[3]), 1)
             ELSE Rat(sign * m, Pow2(-ne[3]))

FAdd(a, b) == FloatRound(RatAdd(a, b))
FSub(a, b) == FloatRound(RatSub(a, b))
FMul(a, b) == FloatRound(RatMul(a, b))
FDiv(a, b) == FloatRound(RatDiv(a, b))

-----------------------------------------------------------------------------
(* Python numbers and strings.                                             *)

PyInt(n) == [ty |-> "int", val |-> RatInt(n)]
PyFloat(r) == [ty |-> "float", val |-> r]

\* Python's == on numbers compares values: 560 == 560.0.
PyNumEq(a, b) == a.val = b.val

DtText(fmt, pad, t) == [k |-> "dt", fmt |-> fmt, pad |-> pad, t |-> t]
NumText(val, dot) == [k |-> "num", val |-> val, dot |-> dot]
JunkText == [k |-> "junk"]

\* str(x) of a number, as csv.writer writes it: a float always carries a
\* fractional part ("560.0"), an int never does ("560").
PyStr(x) == NumText(x.val, x.ty = "float")

\* float(s): succeeds on a numeric literal, raises ValueError otherwise.
CanFloat(s) == s.k = "num"
FloatOf(s) == PyFloat(s.val)

\* int(s): succeeds on an integer literal only ("0", not "0.0").
CanInt(s) == s.k = "num" /\ ~s.dot /\ s.val[2] = 1
IntOf(s) == s.val[1]

\* datetime.strptime(s, fmt): succeeds when s is laid out as fmt (zero padded
\* or not), raises ValueError otherwise; the value is the instant denoted.
CanStrptime(s, fmt) == s.k = "dt" /\ s.fmt = fmt
Strptime(s) == s.t

\* dt.strftime('%m/%d/%Y %H:%M'): zero padded, seconds dropped.
Strftime(dt) == DtText("mdY_HM", TRUE, dt - (dt % 60))

-----------------------------------------------------------------------------
(* Program constants.                                                      *)

LegacyGapDataHandler == 30
LegacyGapUltraSimple == 60
LegacyGapWeb == 60

None == [loaded |-> FALSE, bars |-> <<>>]
NoFile == [absent |-> TRUE]

\* SimpleChartCanvas.__init__ / UltraSimpleChartCanvas.__init__
chart_width == 800
chart_height == 600
margin_left == 60
margin_right == 20
margin_top == 20
margin_bottom == 60

InitialRanges ==
    [min_price |-> RatInt(0), max_price |-> RatInt(1000), min_time |-> 0, max_time |-> 100]

ModernHeader == <<"stroke_id", "datetime", "open", "high", "low", "close", "volume">>
LegacyHeader == <<"datetime", "open", "high", "low", "close", "volume">>

-----------------------------------------------------------------------------
(* PatternCodec: encode.                                                   *)

\* Mutant of enumerate_id: ids counted from one.
enumerate_id_from_one(i) == i

\* enumerate(strokes): the id of the stroke at (1-based) position i.
enumerate_id(i) == i - 1

\* The (stroke_id, point) pairs in the order the nested loops
\* "for stroke_id, stroke in enumerate(strokes): for point in stroke" visit them.
RECURSIVE export_visits(_, _)
export_visits(strokes, i) ==
    IF i > Len(strokes) THEN <<>>
    ELSE [j \in 1..Len(strokes[i]) |-> <<enumerate_id(i), strokes[i][j]>>]
         \o export_visits(strokes, i + 1)

\* The row DataHandler.export_pattern_to_csv writes for one point.
DataHandler_export_row(stroke_id, point) ==
    [stroke_id |-> PyStr(PyInt(stroke_id)),
     datetime  |-> Strftime(Strptime(point[1])),
     open      |-> PyStr(point[2]),
     high      |-> PyStr(point[2]),
     low       |-> PyStr(point[2]),
     close     |-> PyStr(point[2]),
     volume    |-> PyStr(PyInt(0))]

\* The first visit whose timestamp strptime('%m/%d/%Y %H:%M') rejects
\* (Len + 1 when there is none): the loop raises there.
first_bad_visit(visits) ==
    LET bad == {n \in 1..Len(visits) : ~CanStrptime(visits[n][2][1], "mdY_HM")}
    IN  IF bad = {} THEN Len(visits) + 1
        ELSE CHOOSE n \in bad : \A m \in bad : n <= m

\* DataHandler.export_pattern_to_csv(strokes, filename): the file is opened
\* for writing and the header written before the first point is looked at, so
\* the rows written before an exception stay in the file.
DataHandler_export_pattern_to_csv(strokes) ==
    LET visits == export_visits(strokes, 1)
        stop == first_bad_visit(visits)
    IN  [ok   |-> stop > Len(visits),
         file |-> [header |-> ModernHeader,
                   rows |-> [n \in 1..(stop - 1) |->
                               DataHandler_export_row(visits[n][1], visits[n][2])]]]

\* The row UltraSimpleDataHandler / WebDataHandler export writes for one point:
\* no stroke_id, the timestamp string as stored.
Legacy_export_row(point) ==
    [datetime  |-> point[1],
     open      |-> PyStr(point[2]),
     high      |-> PyStr(point[2]),
     low       |-> PyStr(point[2]),
     close     |-> PyStr(point[2]),
     volume    |-> PyStr(PyInt(0))]

Legacy_export_pattern_to_csv(strokes) ==
    LET visits == export_visits(strokes, 1)
    IN  [ok   |-> TRUE,
         file |-> [header |-> LegacyHeader,
                   rows |-> [n \in 1..Len(visits) |-> Legacy_export_row(visits[n][2])]]]

-----------------------------------------------------------------------------
(* PatternCodec: decode.  The loop state is                                *)
(* [strokes, current_stroke, last, err]; last is [some, v] for             *)
(* last_stroke_id / last_datetime (None when some is FALSE).               *)

DecodeStart == [strokes |-> <<>>, current_stroke |-> <<>>,
                last |-> [some |-> FALSE, v |-> 0], err |-> FALSE]

Raise(st) == [st EXCEPT !.err = TRUE]

\* Mutant of append_if_nonempty: the stroke is appended even when empty.
append_always(strokes, stroke) == Append(strokes, stroke)

\* "if current_stroke: strokes.append(current_stroke)"
append_if_nonempty(strokes, stroke) ==
    IF stroke # <<>> THEN Append(strokes, stroke) ELSE strokes

\* Mutants of modern_boundary: only a larger id closes the stroke; no id does.
modern_boundary_increasing(last, stroke_id) == last.some /\ stroke_id > last.v
modern_boundary_never(last, stroke_id) == FALSE

\* Does the modern branch close the current stroke at this row?
modern_boundary(last, stroke_id) == last.some /\ stroke_id # last.v

\* Does a legacy decoder close the current stroke at this row?
\* time_diff = (dt - last).total_seconds(); if time_diff > threshold
legacy_boundary(last, dt, threshold) == last.some /\ (dt - last.v) > threshold

\* The shared tail of every branch: close the stroke at a boundary, append the
\* point, remember the key.
decode_step(st, boundary, point, key) ==
    LET strokes == IF boundary THEN append_if_nonempty(st.strokes, st.current_stroke)
                   ELSE st.strokes
        cur == IF boundary THEN <<>> ELSE st.current_stroke
    IN  [strokes |-> strokes,
         current_stroke |-> Append(cur, point),
         last |-> [some |-> TRUE, v |-> key],
         err |-> FALSE]

\* One iteration of DataHandler.import_pattern_from_csv's loop.
DataHandler_import_row(row, st) ==
    IF "stroke_id" \in DOMAIN row THEN
        IF \/ ~CanInt(row.stroke_id)
           \/ "datetime" \notin DOMAIN row
           \/ "close" \notin DOMAIN row
           \/ ~CanFloat(row.close)
        THEN Raise(st)
        ELSE decode_step(st, modern_boundary(st.last, IntOf(row.stroke_id)),
                         <<row.datetime, FloatOf(row.close)>>, IntOf(row.stroke_id))
    ELSE
        IF \/ "datetime" \notin DOMAIN row
           \/ "close" \notin DOMAIN row
           \/ ~CanFloat(row.close)
           \/ ~CanStrptime(row.datetime, "mdY_HM")
        THEN Raise(st)
        ELSE decode_step(st, legacy_boundary(st.last, Strptime(row.datetime),
                                             LegacyGapDataHandler),
                         <<row.datetime, FloatOf(row.close)>>, Strptime(row.datetime))

\* One iteration of UltraSimpleDataHandler.import_pattern_from_csv's loop.
UltraSimple_import_row(row, st) ==
    IF \/ "datetime" \notin DOMAIN row
       \/ "close" \notin DOMAIN row
       \/ ~CanFloat(row.close)
       \/ ~CanStrptime(row.datetime, "mdY_HM")
    THEN Raise(st)
    ELSE decode_step(st, legacy_boundary(st.last, Strptime(row.datetime),
                                         LegacyGapUltraSimple),
                     <<row.datetime, FloatOf(row.close)>>, Strptime(row.datetime))

\* formats_to_try of WebDataHandler.import_pattern_from_csv.
WebFormats == {"mdY_HM", "mdY_HMS", "Ymd_HMS", "Ymd_HM", "mdY", "Ymd"}

\* The datetime the web decoder uses for a row: the first format that parses,
\* else datetime.now().
Web_parse_datetime(s, now) ==
    IF \E fmt \in WebFormats : CanStrptime(s, fmt) THEN Strptime(s) ELSE now

\* Mutant of Web_import_row: a datetime no format parses fails the import.
Web_import_row_strict(row, st, now) ==
    IF \/ "datetime" \notin DOMAIN row
       \/ "close" \notin DOMAIN row
       \/ ~CanFloat(row.close)
       \/ \A fmt \in WebFormats : ~CanStrptime(row.datetime, fmt)
    THEN Raise(st)
    ELSE decode_step(st, legacy_boundary(st.last, Strptime(row.datetime), LegacyGapWeb),
                     <<row.datetime, FloatOf(row.close)>>, Strptime(row.datetime))

\* One iteration of WebDataHandler.import_pattern_from_csv's loop.
Web_import_row(row, st, now) ==
    IF \/ "datetime" \notin DOMAIN row
       \/ "close" \notin DOMAIN row
       \/ ~CanFloat(row.close)
    THEN Raise(st)
    ELSE LET dt == Web_parse_datetime(row.datetime, now)
         IN  decode_step(st, legacy_boundary(st.last, dt, LegacyGapWeb),
                         <<row.datetime, FloatOf(row.close)>>, dt)

import_row(h, row, st, now) ==
    CASE h = "DataHandler" -> DataHandler_import_row(row, st)
      [] h = "UltraSimple" -> UltraSimple_import_row(row, st)
      [] h = "Web"         -> Web_import_row(row, st, now)

RECURSIVE import_loop(_, _, _, _, _)
import_loop(h, rows, i, st, now) ==
    IF st.err \/ i > Len(rows) THEN st
    ELSE import_loop(h, rows, i + 1, import_row(h, rows[i], st, now), now)

\* Mutant of finish_decode: the stroke still open at the end is dropped.
finish_decode_dropped(st) == st.strokes

\* After the loop: "if current_stroke: strokes.append(current_stroke)".
finish_decode(st) == append_if_nonempty(st.strokes, st.current_stroke)

\* import_pattern_from_csv(filename) of handler h: the loop, then
\* "if current_stroke: strokes.append(current_stroke)".  A missing file or any
\* exception in the loop is re-raised as Exception("Error importing pattern").
import_pattern_from_csv(h, file, now) ==
    IF file = NoFile THEN [ok |-> FALSE, strokes |-> <<>>]
    ELSE LET st == import_loop(h, file.rows, 1, DecodeStart, now)
         IN  IF st.err THEN [ok |-> FALSE, strokes |-> <<>>]
             ELSE [ok |-> TRUE,
                   strokes |-> finish_decode(st)]


-----------------------------------------------------------------------------
(* Helpers for stating the decode claims.                                  *)

SeqsUpTo(S, n) == UNION {[1..k -> S] : k \in 0..n}

RECURSIVE Concat(_)
Concat(strokes) ==
    IF strokes = <<>> THEN <<>> ELSE Head(strokes) \o Concat(Tail(strokes))

\* The (1-based) positions, in the concatenation, at which a stroke starts.
StrokeStarts(strokes) ==
    {Len(Concat(SubSeq(strokes, 1, k))) + 1 : k \in 0..(Len(strokes) - 1)}

StrokeSizes(strokes) == [k \in 1..Len(strokes) |-> Len(strokes[k])]

-----------------------------------------------------------------------------
(* Specification SpecDecode: a pattern file of up to MaxRows rows is on     *)
(* disk and one of the three handlers imports it.                           *)

DecodeTimes == {30 * k : k \in 0..MaxTick} \cup {300}

\* A timestamp text for instant t: minute layout when t is a whole minute,
\* the layout with seconds otherwise.
TimeTextOf(t) ==
    IF t % 60 = 0 THEN DtText("mdY_HM", TRUE, t) ELSE DtText("mdY_HMS", TRUE, t)

LegacyDatetimes == {TimeTextOf(t) : t \in DecodeTimes} \cup {JunkText}
ModernDatetimes == {DtText("mdY_HM", TRUE, 0), DtText("mdY_HM", TRUE, 60), JunkText}

OnePriceText == PyStr(PyFloat(RatInt(1)))

LegacyRows ==
    {[datetime |-> d, open |-> OnePriceText, high |-> OnePriceText,
      low |-> OnePriceText, close |-> OnePriceText, volume |-> PyStr(PyInt(0))]
       : d \in LegacyDatetimes}

ModernRows ==
    {[stroke_id |-> PyStr(PyInt(id)), datetime |-> d, open |-> OnePriceText,
      high |-> OnePriceText, low |-> OnePriceText, close |-> OnePriceText,
      volume |-> PyStr(PyInt(0))]
       : id \in {0, 1}, d \in ModernDatetimes}

DecodeFiles ==
    {[header |-> LegacyHeader, rows |-> r] : r \in SeqsUpTo(LegacyRows, MaxRows)}
    \cup {[header |-> ModernHeader, rows |-> r] : r \in SeqsUpTo(ModernRows, MaxRows)}

Handlers == {"DataHandler", "UltraSimple", "Web"}

\* What datetime.now() may return while a file is decoded.
NowTimes == {90, 600}

NoRet == [op |-> "none"]

InitCommon ==
    /\ drawing_enabled = FALSE
    /\ is_drawing = FALSE
    /\ current_stroke = <<>>
    /\ all_strokes = <<>>
    /\ market_data = None
    /\ pattern_strokes = <<>>
    /\ sample_strokes = <<>>
    /\ ret = NoRet
    /\ calls = <<>>
    /\ ranges = InitialRanges
    /\ preview = <<>>
    /\ aliases = {}
    /\ handler = "DataHandler"
    /\ requests = <<>>

InitDecode ==
    /\ InitCommon
    /\ csvfile \in DecodeFiles

\* Mutant of stored_after_import: the handler's list is emptied before the
\* file is read, so a failed import leaves it empty.
stored_after_import_reset(old, r) == IF r.ok THEN r.strokes ELSE <<>>

\* "self.pattern_strokes = strokes" is reached only when the loop raised
\* nothing.
stored_after_import(old, r) == IF r.ok THEN r.strokes ELSE old

\* handler.import_pattern_from_csv(filename): DataHandler and
\* UltraSimpleDataHandler store the result in self.pattern_strokes before
\* returning it; WebDataHandler only returns it.
ImportFile(h, now) ==
    LET r == import_pattern_from_csv(h, csvfile, now)
    IN  /\ ret' = [op |-> "import", h |-> h, ok |-> r.ok, strokes |-> r.strokes,
                   now |-> IF h = "Web" THEN now ELSE 0]
        /\ pattern_strokes' = IF h # "Web" THEN stored_after_import(pattern_strokes, r)
                             ELSE pattern_strokes
        /\ UNCHANGED <<drawing_enabled, is_drawing, current_stroke, all_strokes,
                       market_data, csvfile, sample_strokes, calls, ranges, preview, aliases,
                       handler, requests>>

NextDecode == \E h \in Handlers, now \in NowTimes : ImportFile(h, now)

SpecDecode == InitDecode /\ [][NextDecode]_vars

IsModern(file) == file # NoFile /\ file.header = ModernHeader
IsLegacy(file) == file # NoFile /\ file.header = LegacyHeader

\* The rows of the file on disk, as the (datetime, close) pairs a decoder
\* emits for them.
RowPoints(file) ==
    [i \in 1..Len(file.rows) |-> <<file.rows[i].datetime, FloatOf(file.rows[i].close)>>]

Imported(h) == ret.op = "import" /\ ret.h = h

\* The decode of handler h inferred stroke boundaries from time gaps.
LegacyDecode(h) ==
    /\ Imported(h)
    /\ \/ h \in {"UltraSimple", "Web"}
       \/ h = "DataHandler" /\ IsLegacy(csvfile)

LegacyThreshold(h) ==
    CASE h = "DataHandler" -> LegacyGapDataHandler
      [] h = "UltraSimple" -> LegacyGapUltraSimple
      [] h = "Web"         -> LegacyGapWeb

AllRowsTimed(file) == \A i \in 1..Len(file.rows) : file.rows[i].datetime.k = "dt"

\* C3: a legacy decode starts a new stroke at row i > 1 if and only if the
\* time gap between row i and row i-1, in either direction, exceeds the
\* handler's threshold (rows whose timestamps all parse).
C3_GapEitherDirection ==
    \A h \in Handlers :
        (LegacyDecode(h) /\ ret.ok /\ AllRowsTimed(csvfile)) =>
            \A i \in 2..Len(csvfile.rows) :
                (i \in StrokeStarts(ret.strokes)) <=>
                    (Abs(csvfile.rows[i].datetime.t - csvfile.rows[i - 1].datetime.t)
                        > LegacyThreshold(h))

\* The example of C3: rows at 10:00:00, 10:00:30, 10:05:00 (0 s, 30 s, 300 s)
\* decoded by the web handler give two strokes of sizes 2 and 1.
C3_ExampleReached ==
    /\ Imported("Web") /\ ret.ok
    /\ IsLegacy(csvfile)
    /\ [i \in 1..Len(csvfile.rows) |-> csvfile.rows[i].datetime]
         = <<TimeTextOf(0), TimeTextOf(30), TimeTextOf(300)>>
    /\ StrokeSizes(ret.strokes) = <<2, 1>>

\* C4: the modern-format decode of DataHandler fails when a row's datetime
\* cannot be parsed by an accepted timestamp format.
C4_ModernRejectsBadDatetime ==
    (/\ Imported("DataHandler")
     /\ IsModern(csvfile)
     /\ \E i \in 1..Len(csvfile.rows) :
            \A fmt \in WebFormats : ~CanStrptime(csvfile.rows[i].datetime, fmt))
        => ~ret.ok

\* C9: the modern-format decode of DataHandler starts a new stroke exactly at
\* each row whose stroke_id differs from the previous row's; the strokes are
\* the maximal runs of equal ids in row order, whatever the id values.
C9_ModernBoundaryIsIdChange ==
    (Imported("DataHandler") /\ IsModern(csvfile)) =>
        /\ ret.ok
        /\ Concat(ret.strokes) = RowPoints(csvfile)
        /\ \A k \in 1..Len(ret.strokes) : ret.strokes[k] # <<>>
        /\ \A i \in 2..Len(csvfile.rows) :
               (i \in StrokeStarts(ret.strokes)) <=>
                   (IntOf(csvfile.rows[i].stroke_id) # IntOf(csvfile.rows[i - 1].stroke_id))

\* Rows with ids 0, 1, 0 decoded to three strokes.
C9_Witness ==
    /\ Imported("DataHandler") /\ IsModern(csvfile) /\ ret.ok
    /\ [i \in 1..Len(csvfile.rows) |-> IntOf(csvfile.rows[i].stroke_id)] = <<0, 1, 0>>
    /\ Len(ret.strokes) = 3

\* C11: after every successful decode, by any of the three handlers and of
\* either file layout, the decoded strokes are non-empty and their
\* concatenation in order is the (datetime, close) pairs of the rows in file
\* order: each row is in exactly one stroke, the last run of rows included.
C11_DecodePartitionsRows ==
    (ret.op = "import" /\ ret.ok) =>
        /\ Concat(ret.strokes) = RowPoints(csvfile)
        /\ \A k \in 1..Len(ret.strokes) : ret.strokes[k] # <<>>
        /\ ret.h # "Web" => pattern_strokes = ret.strokes

\* A legacy decode by UltraSimpleDataHandler of three rows closed one stroke
\* at a gap and appended the last row as the final stroke.
C11_Witness ==
    /\ Imported("UltraSimple") /\ ret.ok
    /\ IsLegacy(csvfile)
    /\ Len(csvfile.rows) = 3
    /\ StrokeSizes(ret.strokes) = <<2, 1>>
    /\ ret.strokes[2] = <<RowPoints(csvfile)[3]>>
    /\ pattern_strokes = ret.strokes

Unparsable(text) == \A fmt \in WebFormats : ~(text.k = "dt" /\ text.fmt = fmt)

\* The instant the web decoder compares for row i: the parsed datetime, or
\* the clock value when no format parses.
WebRowTime(file, i, now) ==
    IF Unparsable(file.rows[i].datetime) THEN now ELSE file.rows[i].datetime.t

\* C12: WebDataHandler's decode of a file with a row whose datetime matches
\* none of the six formats succeeds; that row stays in the output with its
\* original datetime string and close, the current time stands in for it in
\* the gap test, and the rows after it are decoded as usual.
C12_WebFallbackKeepsRow ==
    (/\ Imported("Web")
     /\ \E i \in 1..Len(csvfile.rows) : Unparsable(csvfile.rows[i].datetime))
        => /\ ret.ok
           /\ Concat(ret.strokes) = RowPoints(csvfile)
           /\ \A i \in 2..Len(csvfile.rows) :
                  (i \in StrokeStarts(ret.strokes)) <=>
                      (WebRowTime(csvfile, i, ret.now) - WebRowTime(csvfile, i - 1, ret.now)
                          > LegacyGapWeb)

\* The web decoder read a parsable row, an unparsable one and a parsable one:
\* the clock value put a boundary before the second row, which is kept with
\* its original text, and the third row follows it in the same stroke.
C12_Witness ==
    /\ Imported("Web") /\ ret.ok
    /\ Len(csvfile.rows) = 3
    /\ ~Unparsable(csvfile.rows[1].datetime)
    /\ Unparsable(csvfile.rows[2].datetime)
    /\ ~Unparsable(csvfile.rows[3].datetime)
    /\ StrokeSizes(ret.strokes) = <<1, 2>>
    /\ ret.strokes[2][1][1] = csvfile.rows[2].datetime


-----------------------------------------------------------------------------
(* Specification SpecRoundTrip: the workflow of test_workflow.py on a       *)
(* DataHandler.  A caller holds a PatternSet (sample_strokes), exports it,  *)
(* clears the handler and imports the file again, in any order.             *)

\* The points a sample stroke is made of: two canonical timestamps (one with
\* a float price, one with an int price) and one timestamp written without
\* zero padding ("3/12/2025 9:30"), which strptime accepts all the same.
SamplePoints ==
    {<<DtText("mdY_HM", TRUE, 0), PyFloat(RatInt(560))>>,
     <<DtText("mdY_HM", TRUE, 60), PyInt(558)>>,
     <<DtText("mdY_HM", FALSE, 0), PyFloat(Rat(1117, 2))>>}

RECURSIVE SumSeq(_)
SumSeq(q) == IF q = <<>> THEN 0 ELSE Head(q) + SumSeq(Tail(q))

\* The sequence flat cut into consecutive strokes of the given sizes.
SplitBy(flat, sizes) ==
    [k \in 1..Len(sizes) |->
        SubSeq(flat, SumSeq(SubSeq(sizes, 1, k - 1)) + 1, SumSeq(SubSeq(sizes, 1, k)))]

\* Every PatternSet of at most MaxSampleStrokes strokes (empty ones included)
\* holding at most MaxSamplePoints points in all.
SamplePatterns ==
    {SplitBy(flat, sizes) :
        <<flat, sizes>> \in
            {fs \in SeqsUpTo(SamplePoints, MaxSamplePoints)
                     \X SeqsUpTo(0..MaxSamplePoints, MaxSampleStrokes) :
                 SumSeq(fs[2]) = Len(fs[1])}}

InitRoundTrip ==
    /\ drawing_enabled = FALSE
    /\ is_drawing = FALSE
    /\ current_stroke = <<>>
    /\ all_strokes = <<>>
    /\ market_data = None
    /\ pattern_strokes = <<>>
    /\ sample_strokes \in SamplePatterns
    /\ csvfile = NoFile
    /\ ret = NoRet
    /\ calls = <<>>
    /\ ranges = InitialRanges
    /\ preview = <<>>
    /\ aliases = {}
    /\ handler = "DataHandler"
    /\ requests = <<>>

\* data_handler.export_pattern_to_csv(sample_strokes, export_filename)
ExportSample ==
    LET r == DataHandler_export_pattern_to_csv(sample_strokes)
    IN  /\ csvfile' = r.file
        /\ ret' = [op |-> "export", ok |-> r.ok]
        /\ UNCHANGED <<drawing_enabled, is_drawing, current_stroke, all_strokes,
                       market_data, pattern_strokes, sample_strokes, calls, ranges, preview, aliases,
                       handler, requests>>

\* data_handler.clear_patterns()
HandlerClear ==
    /\ pattern_strokes' = <<>>
    /\ ret' = [op |-> "clear"]
    /\ UNCHANGED <<drawing_enabled, is_drawing, current_stroke, all_strokes,
                   market_data, csvfile, sample_strokes, calls, ranges, preview, aliases,
                   handler, requests>>

NextRoundTrip ==
    \/ ExportSample
    \/ HandlerClear
    \/ ImportFile("DataHandler", 0)

SpecRoundTrip == InitRoundTrip /\ [][NextRoundTrip]_vars

\* Every timestamp of the PatternSet is in canonical (zero padded)
\* MM/DD/YYYY HH:MM form.
CanonicalTimestamps(strokes) ==
    \A k \in 1..Len(strokes) : \A j \in 1..Len(strokes[k]) :
        /\ CanStrptime(strokes[k][j][1], "mdY_HM")
        /\ strokes[k][j][1].pad

NoEmptyStroke(strokes) == \A k \in 1..Len(strokes) : strokes[k] # <<>>

\* Same stroke count, same point count per stroke, and at every position the
\* same timestamp string and a price equal under Python's ==.
SamePattern(a, b) ==
    /\ Len(a) = Len(b)
    /\ \A k \in 1..Len(a) :
          /\ Len(a[k]) = Len(b[k])
          /\ \A j \in 1..Len(a[k]) :
                /\ a[k][j][1] = b[k][j][1]
                /\ PyNumEq(a[k][j][2], b[k][j][2])

\* C1: importing the file that export wrote for a PatternSet of non-empty
\* strokes with canonical timestamps gives back the same strokes, in order,
\* with the same (datetime, price) at every position, whether or not the
\* handler was cleared in between.  (In SpecRoundTrip the file on disk is
\* always the export of sample_strokes.)
C1_RoundTrip ==
    (/\ Imported("DataHandler")
     /\ csvfile # NoFile
     /\ NoEmptyStroke(sample_strokes)
     /\ CanonicalTimestamps(sample_strokes))
        => /\ ret.ok
           /\ SamePattern(sample_strokes, ret.strokes)
           /\ pattern_strokes = ret.strokes

\* Two canonical strokes, one of them with two different points, came back.
C1_Witness ==
    /\ Imported("DataHandler") /\ ret.ok
    /\ NoEmptyStroke(sample_strokes) /\ CanonicalTimestamps(sample_strokes)
    /\ Len(sample_strokes) = 2
    /\ \E k \in 1..2 : Len(sample_strokes[k]) = 2
                       /\ sample_strokes[k][1] # sample_strokes[k][2]
    /\ Len(ret.strokes) = 2

\* C5: exporting an empty PatternSet fails and writes no file.
C5_EmptyExportFails ==
    (ret.op = "export" /\ sample_strokes = <<>>) => (~ret.ok /\ csvfile = NoFile)

\* The row position, in the file, of point j of stroke k.
RowIndexOf(strokes, k, j) == Len(Concat(SubSeq(strokes, 1, k - 1))) + j

\* C10: a successful export writes the header
\* stroke_id,datetime,open,high,low,close,volume and then exactly one row per
\* point, in stroke order then point order, with stroke_id the zero-based
\* index of the owning stroke, open = high = low = close = the price and
\* volume = 0.
C10_EncodeRows ==
    (ret.op = "export" /\ ret.ok) =>
        /\ csvfile.header = <<"stroke_id", "datetime", "open", "high", "low", "close", "volume">>
        /\ Len(csvfile.rows) = Len(Concat(sample_strokes))
        /\ \A k \in 1..Len(sample_strokes) : \A j \in 1..Len(sample_strokes[k]) :
              LET row == csvfile.rows[RowIndexOf(sample_strokes, k, j)]
                  point == sample_strokes[k][j]
              IN  /\ row.stroke_id = NumText(RatInt(k - 1), FALSE)
                  /\ row.datetime = DtText("mdY_HM", TRUE, point[1].t)
                  /\ row.open = PyStr(point[2])
                  /\ row.high = PyStr(point[2])
                  /\ row.low = PyStr(point[2])
                  /\ row.close = PyStr(point[2])
                  /\ row.volume = NumText(RatInt(0), FALSE)

\* An export of two strokes, the first empty or not, the second of two points.
C10_Witness ==
    /\ ret.op = "export" /\ ret.ok
    /\ Len(sample_strokes) = 2
    /\ Len(sample_strokes[2]) = 2
    /\ Len(csvfile.rows) >= 3


-----------------------------------------------------------------------------
(* CoordinateMapper (SimpleChartCanvas / UltraSimpleChartCanvas).  r is the *)
(* canvas's ranges record; times, prices and pixels are exact rationals.    *)

time_to_x(r, time) ==
    IF r.max_time = r.min_time THEN RatInt(margin_left)
    ELSE FAdd(RatInt(margin_left),
                FMul(FDiv(FSub(time, RatInt(r.min_time)),
                              RatInt(r.max_time - r.min_time)),
                       RatInt(chart_width - margin_left - margin_right)))

\* Mutant of price_to_y: a flat price range maps to the bottom of the chart.
price_to_y_bottom(r, price) ==
    IF r.max_price = r.min_price THEN RatInt(chart_height - margin_bottom)
    ELSE FSub(RatInt(chart_height - margin_bottom),
                FMul(FDiv(FSub(price, r.min_price),
                              FSub(r.max_price, r.min_price)),
                       RatInt(chart_height - margin_top - margin_bottom)))

price_to_y(r, price) ==
    IF r.max_price = r.min_price THEN RatInt(margin_top)
    ELSE FSub(RatInt(chart_height - margin_bottom),
                FMul(FDiv(FSub(price, r.min_price),
                              FSub(r.max_price, r.min_price)),
                       RatInt(chart_height - margin_top - margin_bottom)))

x_to_time(r, x) ==
    IF chart_width - margin_left - margin_right = 0 THEN RatInt(r.min_time)
    ELSE FAdd(RatInt(r.min_time),
                FMul(FDiv(FSub(x, RatInt(margin_left)),
                              RatInt(chart_width - margin_left - margin_right)),
                       RatInt(r.max_time - r.min_time)))

y_to_price(r, y) ==
    IF chart_height - margin_top - margin_bottom = 0 THEN r.min_price
    ELSE FAdd(r.min_price,
                FMul(FDiv(FSub(RatInt(chart_height - margin_bottom), y),
                              RatInt(chart_height - margin_top - margin_bottom)),
                       FSub(r.max_price, r.min_price)))

\* Mutant of in_chart: the right and bottom margins are not excluded.
in_chart_no_far_margins(x, y) ==
    /\ margin_left <= x /\ x <= chart_width
    /\ margin_top <= y /\ y <= chart_height

\* "margin_left <= event.x <= chart_width - margin_right and
\*  margin_top <= event.y <= chart_height - margin_bottom"
in_chart(x, y) ==
    /\ margin_left <= x /\ x <= chart_width - margin_right
    /\ margin_top <= y /\ y <= chart_height - margin_bottom

-----------------------------------------------------------------------------
(* MarketSeries: None, or [loaded |-> TRUE, bars |-> the bars in file      *)
(* order], each bar [datetime (seconds), close (an exact rational)].        *)

RatMin(S) == CHOOSE a \in S : \A b \in S : RatLe(a, b)
RatMax(S) == CHOOSE a \in S : \A b \in S : RatLe(b, a)

\* The float literal 0.05.
PaddingFactor == FloatRound(Rat(5, 100))

\* Mutant of plot_market_data: the time range ends at len, not at len - 1.
plot_market_data_len(md, r) ==
    IF ~md.loaded THEN r
    ELSE LET prices == {md.bars[i].close : i \in 1..Len(md.bars)}
             lo == RatMin(prices)
             hi == RatMax(prices)
             price_range == FSub(hi, lo)
             padding == FMul(price_range, PaddingFactor)
         IN  [min_price |-> FSub(lo, padding),
              max_price |-> FAdd(hi, padding),
              min_time |-> 0,
              max_time |-> Len(md.bars)]

\* plot_market_data(): no-op when no series is loaded; otherwise the price
\* range is the close range padded by 5% on each side and the time range is
\* the index range.
plot_market_data(md, r) ==
    IF ~md.loaded THEN r
    ELSE LET prices == {md.bars[i].close : i \in 1..Len(md.bars)}
             lo == RatMin(prices)
             hi == RatMax(prices)
             price_range == FSub(hi, lo)
             padding == FMul(price_range, PaddingFactor)
         IN  [min_price |-> FSub(lo, padding),
              max_price |-> FAdd(hi, padding),
              min_time |-> 0,
              max_time |-> Len(md.bars) - 1]

\* Mutant of scan_better: the last bar at the minimal distance wins.
scan_better_or_equal(diff, best) == ~best.some \/ diff <= best.v

\* "if diff < min_diff" (min_diff starts at float('inf')).
scan_better(diff, best) == ~best.some \/ diff < best.v

\* The nearest-time scan of update_drawing_preview: bars i..Len(md.bars) are still
\* to be visited (i is 1-based; time_idx is the 0-based index kept so far).
RECURSIVE nearest_scan(_, _, _, _, _)
nearest_scan(md, dt, i, time_idx, best) ==
    IF i > Len(md.bars) THEN time_idx
    ELSE LET diff == Abs(dt - md.bars[i].datetime)
         IN  IF scan_better(diff, best)
             THEN nearest_scan(md, dt, i + 1, i - 1, [some |-> TRUE, v |-> diff])
             ELSE nearest_scan(md, dt, i + 1, time_idx, best)

nearest_index(md, dt) == nearest_scan(md, dt, 1, 0, [some |-> FALSE, v |-> 0])

\* The canvas x of one stroke point: the nearest bar's x when a series is
\* loaded and the timestamp parses, the left margin otherwise.
preview_x(md, r, time_str) ==
    IF md.loaded /\ CanStrptime(time_str, "mdY_HM")
    THEN time_to_x(r, RatInt(nearest_index(md, Strptime(time_str))))
    ELSE RatInt(margin_left)

preview_line(md, r, stroke, dashed) ==
    [dash |-> dashed,
     points |-> [j \in 1..Len(stroke) |->
                   <<preview_x(md, r, stroke[j][1]), price_to_y(r, stroke[j][2].val)>>]]

\* "for stroke in all_strokes: if len(stroke) > 1: ... create_line(...)"
RECURSIVE completed_lines(_, _, _)
completed_lines(md, r, strokes) ==
    IF strokes = <<>> THEN <<>>
    ELSE (IF Len(Head(strokes)) > 1
          THEN <<preview_line(md, r, Head(strokes), FALSE)>> ELSE <<>>)
         \o completed_lines(md, r, Tail(strokes))

\* update_drawing_preview(): the lines created for the completed strokes
\* (solid) and for the stroke being drawn (dashed), after plot_market_data.
update_drawing_preview(md, r, strokes, cur) ==
    completed_lines(md, r, strokes)
    \o (IF Len(cur) > 1 THEN <<preview_line(md, r, cur, TRUE)>> ELSE <<>>)

-----------------------------------------------------------------------------
(* StrokeRecorder (SimpleChartCanvas / UltraSimpleChartCanvas) with a       *)
(* DataHandler attached.                                                    *)

\* The timestamp string of a pointer event: the bar at int(time_val) when a
\* series is loaded and 0 <= time_val < len, the wall clock otherwise.
resolve_time(md, time_val, now) ==
    IF md.loaded /\ RatLe(RatInt(0), time_val) /\ RatLt(time_val, RatInt(Len(md.bars)))
    THEN Strftime(md.bars[(time_val[1] \div time_val[2]) + 1].datetime)
    ELSE Strftime(now)

\* Mutant of resolve_point: the two coordinates are taken for each other.
resolve_point_swapped(md, r, x, y, now) ==
    <<resolve_time(md, x_to_time(r, RatInt(y)), now), PyFloat(y_to_price(r, RatInt(x)))>>

\* The stroke point (time_str, price_val) of a pointer event at (x, y).
resolve_point(md, r, x, y, now) ==
    <<resolve_time(md, x_to_time(r, RatInt(x)), now), PyFloat(y_to_price(r, RatInt(y)))>>

\* Mutant of start_stroke: the points collected so far are kept.
start_stroke_kept(stroke, point) == Append(stroke, point)

\* "self.current_stroke = []" then "self.current_stroke.append(...)"
start_stroke(stroke, point) == <<point>>

\* Mutant of stroke_after_release: the current stroke is left as it is.
stroke_after_release_kept(stroke) == stroke

\* on_mouse_release: "self.current_stroke = []"
stroke_after_release(stroke) == <<>>

\* Mutant of extend_stroke: the new point is put first.
extend_stroke_front(stroke, point) == <<point>> \o stroke

\* "self.current_stroke.append((time_str, price_val))"
extend_stroke(stroke, point) == Append(stroke, point)

\* Mutant of add_stroke: the handler does not record the stroke.
add_stroke_skipped(strokes, stroke) == strokes

\* data_handler.add_stroke(stroke): "if stroke: self.pattern_strokes.append(stroke)"
add_stroke(strokes, stroke) == IF stroke # <<>> THEN Append(strokes, stroke) ELSE strokes

\* Mutant of keeps_stroke: a single point is kept too.
keeps_stroke_nonempty(stroke) == Len(stroke) > 0

\* "if len(self.current_stroke) > 1"
keeps_stroke(stroke) == Len(stroke) > 1


\* Mutant of append_copy: the new stroke is put first.
prepend_copy(strokes, stroke) == <<stroke>> \o strokes

\* "self.all_strokes.append(self.current_stroke.copy())"
append_copy(strokes, stroke) == Append(strokes, stroke)

PointCount(strokes) == SumSeq(StrokeSizes(strokes))

\* Pointer positions: three inside the chart rectangle (left edge, three
\* quarters of the width, right edge), one right of it and one below it.
PointerPositions == {<<60, 280>>, <<600, 280>>, <<780, 280>>, <<790, 280>>, <<420, 560>>}

\* Values of datetime.now() at a pointer event.
ClockTimes == {600}

\* The series the application can load: two one-minute bars.
LoadableSeries ==
    {[loaded |-> TRUE,
      bars |-> <<[datetime |-> 0, close |-> RatInt(100)],
                 [datetime |-> 60, close |-> RatInt(120)]>>]}

\* What the last pointer event was: its kind and position, whether the handler
\* got past its guards, and the length of the current stroke it found.
PointerRet(op, x, y, accepted) ==
    [op |-> op, x |-> x, y |-> y, accepted |-> accepted, points |-> Len(current_stroke)]

\* <Button-1>
on_mouse_press(x, y, now) ==
    /\ ret' = PointerRet("press", x, y, drawing_enabled /\ in_chart(x, y))
    /\ calls' = <<>>
    /\ IF drawing_enabled /\ in_chart(x, y)
       THEN /\ PointCount(all_strokes) + 1 <= MaxTotalPoints
            /\ is_drawing' = TRUE
            /\ current_stroke' =
                   start_stroke(current_stroke,
                                resolve_point(market_data, ranges, x, y, now))
       ELSE UNCHANGED <<is_drawing, current_stroke>>
    /\ UNCHANGED <<drawing_enabled, all_strokes, market_data, pattern_strokes,
                   csvfile, sample_strokes, ranges, preview, aliases,
                   handler, requests>>

\* <B1-Motion>
on_mouse_move(x, y, now) ==
    /\ ret' = PointerRet("move", x, y, drawing_enabled /\ is_drawing /\ in_chart(x, y))
    /\ calls' = <<>>
    /\ IF drawing_enabled /\ is_drawing /\ in_chart(x, y)
       THEN /\ PointCount(all_strokes) + Len(current_stroke) + 1 <= MaxTotalPoints
            /\ current_stroke' =
                   extend_stroke(current_stroke,
                                 resolve_point(market_data, ranges, x, y, now))
            /\ ranges' = plot_market_data(market_data, ranges)
            /\ preview' = update_drawing_preview(market_data, ranges', all_strokes,
                                                 current_stroke')
       ELSE UNCHANGED <<current_stroke, ranges, preview>>
    /\ UNCHANGED <<drawing_enabled, is_drawing, all_strokes, market_data,
                   pattern_strokes, csvfile, sample_strokes, aliases,
                   handler, requests>>

\* <ButtonRelease-1>
on_mouse_release(x, y) ==
    /\ ret' = PointerRet("release", x, y, drawing_enabled /\ is_drawing)
    /\ IF drawing_enabled /\ is_drawing
       THEN /\ is_drawing' = FALSE
            /\ IF keeps_stroke(current_stroke)
               THEN /\ all_strokes' = append_copy(all_strokes, current_stroke)
                    /\ pattern_strokes' = add_stroke(pattern_strokes, current_stroke)
                    /\ calls' = <<[fn |-> "add_stroke", arg |-> current_stroke]>>
               ELSE /\ calls' = <<>>
                    /\ UNCHANGED <<all_strokes, pattern_strokes>>
            /\ current_stroke' = stroke_after_release(current_stroke)
            /\ ranges' = plot_market_data(market_data, ranges)
            /\ preview' = update_drawing_preview(market_data, ranges', all_strokes',
                                                 current_stroke')
       ELSE /\ calls' = <<>>
            /\ UNCHANGED <<is_drawing, current_stroke, all_strokes, pattern_strokes,
                           ranges, preview>>
    /\ UNCHANGED <<drawing_enabled, market_data, csvfile, sample_strokes, aliases,
                   handler, requests>>

enable_drawing ==
    /\ drawing_enabled' = TRUE
    /\ ret' = [op |-> "enable_drawing"]
    /\ calls' = <<>>
    /\ UNCHANGED <<is_drawing, current_stroke, all_strokes, market_data,
                   pattern_strokes, csvfile, sample_strokes, ranges, preview, aliases,
                   handler, requests>>

disable_drawing ==
    /\ drawing_enabled' = FALSE
    /\ ret' = [op |-> "disable_drawing"]
    /\ calls' = <<>>
    /\ UNCHANGED <<is_drawing, current_stroke, all_strokes, market_data,
                   pattern_strokes, csvfile, sample_strokes, ranges, preview, aliases,
                   handler, requests>>

\* Mutant of clear_patterns: the data handler is not told.
clear_patterns_canvas_only ==
    /\ all_strokes' = <<>>
    /\ current_stroke' = <<>>
    /\ calls' = <<>>
    /\ ranges' = plot_market_data(market_data, ranges)
    /\ preview' = IF market_data.loaded THEN <<>> ELSE preview
    /\ ret' = [op |-> "clear_patterns"]
    /\ aliases' = {}
    /\ UNCHANGED <<drawing_enabled, is_drawing, market_data, csvfile, sample_strokes,
                   pattern_strokes, handler, requests>>

\* canvas.clear_patterns(): empties both stroke lists of the canvas, calls
\* data_handler.clear_patterns() and replots (which wipes the canvas only
\* when a series is loaded).
clear_patterns ==
    /\ all_strokes' = <<>>
    /\ current_stroke' = <<>>
    /\ pattern_strokes' = <<>>
    /\ calls' = <<[fn |-> "clear_patterns", arg |-> <<>>]>>
    /\ ranges' = plot_market_data(market_data, ranges)
    /\ preview' = IF market_data.loaded THEN <<>> ELSE preview
    /\ ret' = [op |-> "clear_patterns"]
    /\ aliases' = {}
    /\ UNCHANGED <<drawing_enabled, is_drawing, market_data, csvfile, sample_strokes,
                   handler, requests>>

\* canvas.load_market_data(series)
load_market_data(series) ==
    /\ market_data' = series
    /\ ranges' = plot_market_data(series, ranges)
    /\ preview' = <<>>
    /\ ret' = [op |-> "load_market_data"]
    /\ calls' = <<>>
    /\ UNCHANGED <<drawing_enabled, is_drawing, current_stroke, all_strokes,
                   pattern_strokes, csvfile, sample_strokes, aliases,
                   handler, requests>>

Init ==
    /\ InitCommon
    /\ csvfile = NoFile

Next ==
    \/ \E p \in PointerPositions, now \in ClockTimes : on_mouse_press(p[1], p[2], now)
    \/ \E p \in PointerPositions, now \in ClockTimes : on_mouse_move(p[1], p[2], now)
    \/ \E p \in PointerPositions : on_mouse_release(p[1], p[2])
    \/ enable_drawing
    \/ disable_drawing
    \/ clear_patterns
    \/ \E series \in LoadableSeries : load_market_data(series)

Spec == Init /\ [][Next]_vars


-----------------------------------------------------------------------------
(* Claims about the recorder, under Spec.                                   *)

PointerOps == {"press", "move", "release"}

\* The chart rectangle, from the canvas geometry.
InsideChartRectangle(x, y) ==
    /\ x >= margin_left /\ x <= chart_width - margin_right
    /\ y >= margin_top /\ y <= chart_height - margin_bottom

RecorderUnchanged ==
    UNCHANGED <<is_drawing, current_stroke, all_strokes, pattern_strokes>>

\* C2: after any sequence of pointer events the completed PatternSet holds no
\* stroke of exactly one point, and a pointer-up that follows a pointer-down
\* with no accepted pointer-move in between (the current stroke holds one
\* point) stores no stroke and makes no add_stroke call.
C2_NoOnePointStroke ==
    /\ [](\A i \in 1..Len(all_strokes) : Len(all_strokes[i]) # 1)
    /\ [][(ret'.op = "release" /\ drawing_enabled /\ is_drawing
             /\ Len(current_stroke) = 1)
          => /\ all_strokes' = all_strokes
             /\ pattern_strokes' = pattern_strokes
             /\ calls' = <<>>]_vars

\* A pointer-up has just ended a one-point stroke while an earlier stroke is
\* stored.
C2_Witness ==
    /\ ret.op = "release"
    /\ ret.accepted
    /\ ret.points = 1
    /\ ~is_drawing
    /\ calls = <<>>
    /\ Len(all_strokes) = 1
    /\ pattern_strokes = all_strokes

\* C7 (as stated): every pointer event outside the chart rectangle, and every
\* pointer event received while drawing is disabled, leaves is_drawing, the
\* current stroke, the completed PatternSet and the handler's stroke list
\* unchanged.
C7_IgnoredEventsChangeNothing ==
    [][(ret'.op \in PointerOps
          /\ (~InsideChartRectangle(ret'.x, ret'.y) \/ ~drawing_enabled))
       => RecorderUnchanged]_vars

\* C7 (amended): a pointer-down or pointer-move outside the chart rectangle,
\* and every pointer event received while drawing is disabled, leaves the
\* recorder state unchanged; a pointer-up received while drawing is enabled
\* and a stroke is being recorded ends the stroke whatever its position.
C7_IgnoredEventsAmended ==
    /\ [][(ret'.op \in PointerOps
             /\ \/ ~drawing_enabled
                \/ (ret'.op # "release" /\ ~InsideChartRectangle(ret'.x, ret'.y)))
          => RecorderUnchanged]_vars
    /\ [][(ret'.op = "release" /\ drawing_enabled /\ is_drawing)
          => (~is_drawing' /\ current_stroke' = <<>>)]_vars

\* A pointer-up outside the chart rectangle has just ended and stored a
\* stroke.
C7_Witness ==
    /\ ret.op = "release"
    /\ ret.accepted
    /\ ~InsideChartRectangle(ret.x, ret.y)
    /\ calls # <<>>
    /\ ~is_drawing

\* C8: an accepted pointer-up while Recording appends the current stroke as
\* the last completed stroke when it has more than one point, keeps the
\* earlier strokes as they were and calls add_stroke exactly once with the
\* stroke's points; otherwise it stores nothing and calls nothing; either
\* way the recorder ends Idle with an empty current stroke.
C8_PointerUpCompletesStroke ==
    [][(ret'.op = "release" /\ drawing_enabled /\ is_drawing)
       => /\ IF Len(current_stroke) > 1
             THEN /\ Len(all_strokes') = Len(all_strokes) + 1
                  /\ all_strokes'[Len(all_strokes')] = current_stroke
                  /\ \A i \in 1..Len(all_strokes) : all_strokes'[i] = all_strokes[i]
                  /\ calls' = <<[fn |-> "add_stroke", arg |-> current_stroke]>>
             ELSE /\ all_strokes' = all_strokes
                  /\ pattern_strokes' = pattern_strokes
                  /\ calls' = <<>>
          /\ ~is_drawing'
          /\ current_stroke' = <<>>]_vars

\* A pointer-up has just stored a second stroke that differs from the first.
C8_Witness ==
    /\ ret.op = "release"
    /\ ret.accepted
    /\ Len(all_strokes) = 2
    /\ all_strokes[1] # all_strokes[2]
    /\ calls = <<[fn |-> "add_stroke", arg |-> all_strokes[2]]>>
    /\ ~is_drawing
    /\ current_stroke = <<>>


AcceptedPointerDownOrMove ==
    /\ ret'.op \in {"press", "move"}
    /\ ret'.accepted

\* C14: the timestamp stored for an accepted pointer event is that of the bar
\* whose index is the nearest integer to the mapped time index; the wall
\* clock is used only when no series is loaded or the index is outside
\* [0, len).
C14_ResolveByRoundedIndex ==
    [][AcceptedPointerDownOrMove =>
         LET time_val == x_to_time(ranges, RatInt(ret'.x))
             stored == current_stroke'[Len(current_stroke')][1]
         IN  IF /\ market_data.loaded
                /\ RatLe(RatInt(0), time_val)
                /\ RatLt(time_val, RatInt(Len(market_data.bars)))
             THEN RoundOf(time_val) < Len(market_data.bars)
                    => stored = Strftime(market_data.bars[RoundOf(time_val) + 1].datetime)
             ELSE \E now \in ClockTimes : stored = Strftime(now)]_vars

\* A pointer-down at three quarters of the chart width on a two-bar series
\* (time index 3/4) stored the first bar's timestamp.
C14_TruncatedReached ==
    /\ ret.op = "press" /\ ret.accepted
    /\ market_data.loaded
    /\ x_to_time(ranges, RatInt(ret.x)) = Rat(3, 4)
    /\ current_stroke = <<<<Strftime(market_data.bars[1].datetime),
                            PyFloat(y_to_price(ranges, RatInt(ret.y)))>>>>

\* C17: after clear_patterns, whatever the state it was called in, the
\* canvas's completed PatternSet, its in-progress stroke and the data
\* handler's pattern_strokes are all empty.
C17_ClearEmptiesAll ==
    ret.op = "clear_patterns" =>
        /\ all_strokes = <<>>
        /\ current_stroke = <<>>
        /\ Len(pattern_strokes) = 0
        /\ calls = <<[fn |-> "clear_patterns", arg |-> <<>>]>>

\* clear_patterns was called in the middle of a stroke, with no series
\* loaded, after strokes had been drawn (their lines are still on the
\* canvas).
C17_Witness ==
    /\ ret.op = "clear_patterns"
    /\ is_drawing
    /\ drawing_enabled
    /\ ~market_data.loaded
    /\ Len(preview) >= 2
    /\ all_strokes = <<>> /\ current_stroke = <<>> /\ pattern_strokes = <<>>

\* The timestamp a pointer event at x is stored with: the bar at the
\* truncated time index when a series is loaded and the index is in
\* [0, len), a clock value otherwise.
StoredTimeAt(x, stored) ==
    LET time_val == x_to_time(ranges, RatInt(x))
    IN  IF /\ market_data.loaded
           /\ RatLe(RatInt(0), time_val)
           /\ RatLt(time_val, RatInt(Len(market_data.bars)))
        THEN stored = Strftime(market_data.bars[FloorOf(time_val) + 1].datetime)
        ELSE \E now \in ClockTimes : stored = Strftime(now)

\* The point stored for a pointer event at (x, y).
IsResolvedPoint(x, y, point) ==
    /\ StoredTimeAt(x, point[1])
    /\ point[2] = PyFloat(y_to_price(ranges, RatInt(y)))

\* C19: a pointer-down in Idle with drawing enabled and the position inside
\* the chart rectangle moves the recorder to Recording with a current stroke
\* of exactly one point, the resolved point of the event, and leaves the
\* completed PatternSet unchanged.
C19_PointerDownStartsStroke ==
    [][(/\ ret'.op = "press"
        /\ drawing_enabled
        /\ ~is_drawing
        /\ InsideChartRectangle(ret'.x, ret'.y))
       => /\ is_drawing'
          /\ Len(current_stroke') = 1
          /\ IsResolvedPoint(ret'.x, ret'.y, current_stroke'[1])
          /\ all_strokes' = all_strokes
          /\ pattern_strokes' = pattern_strokes]_vars

\* A pointer-down in Idle at the right edge of a loaded two-bar series
\* started a stroke at the second bar while a completed stroke is stored.
C19_Witness ==
    /\ ret.op = "press" /\ ret.accepted
    /\ ret.points = 0
    /\ ret.x = chart_width - margin_right
    /\ is_drawing
    /\ market_data.loaded
    /\ Len(current_stroke) = 1
    /\ current_stroke[1][1] = Strftime(market_data.bars[2].datetime)
    /\ Len(all_strokes) = 1

\* C20: a pointer-move in Recording with drawing enabled and the position
\* inside the chart rectangle appends exactly one point, the resolved point,
\* at the end of the current stroke; the recorder stays in Recording and the
\* completed PatternSet and the handler's stroke list are unchanged.  A
\* pointer-move in Idle changes nothing.
C20_PointerMoveAppendsPoint ==
    /\ [][(/\ ret'.op = "move"
           /\ drawing_enabled
           /\ is_drawing
           /\ InsideChartRectangle(ret'.x, ret'.y))
          => /\ Len(current_stroke') = Len(current_stroke) + 1
             /\ SubSeq(current_stroke', 1, Len(current_stroke)) = current_stroke
             /\ IsResolvedPoint(ret'.x, ret'.y, current_stroke'[Len(current_stroke')])
             /\ is_drawing'
             /\ UNCHANGED <<all_strokes, pattern_strokes, drawing_enabled, market_data>>]_vars
    /\ [][(ret'.op = "move" /\ ~is_drawing)
          => UNCHANGED <<is_drawing, current_stroke, all_strokes, pattern_strokes>>]_vars

\* A pointer-move has just appended a second, different point to the current
\* stroke.
C20_Witness ==
    /\ ret.op = "move" /\ ret.accepted
    /\ ret.points = 1
    /\ is_drawing
    /\ Len(current_stroke) = 2
    /\ current_stroke[1] # current_stroke[2]
    /\ IsResolvedPoint(ret.x, ret.y, current_stroke[2])

\* C29: a pointer-down in Recording with drawing enabled and the position
\* inside the chart rectangle makes the current stroke exactly the resolved
\* point of that event; the points collected so far are not committed: the
\* completed PatternSet and the handler's stroke list are unchanged and no
\* add_stroke call is made.
C29_PointerDownWhileRecording ==
    [][(/\ ret'.op = "press"
        /\ drawing_enabled
        /\ is_drawing
        /\ InsideChartRectangle(ret'.x, ret'.y))
       => /\ is_drawing'
          /\ Len(current_stroke') = 1
          /\ IsResolvedPoint(ret'.x, ret'.y, current_stroke'[1])
          /\ all_strokes' = all_strokes
          /\ pattern_strokes' = pattern_strokes
          /\ calls' = <<>>]_vars

\* A pointer-down arrived while a stroke of two points was being recorded:
\* only the new point is left and nothing was committed.
C29_Witness ==
    /\ ret.op = "press" /\ ret.accepted
    /\ ret.points = 2
    /\ is_drawing
    /\ Len(current_stroke) = 1
    /\ all_strokes = <<>>
    /\ pattern_strokes = <<>>

BarTimestamps(md) == {Strftime(md.bars[i].datetime) : i \in 1..Len(md.bars)}

\* C30: with a non-empty series loaded, every pointer-down or pointer-move
\* that passes the guards maps to a time index in [0, len - 1] and the point
\* it stores carries the timestamp of a bar of that series, never the clock.
C30_AcceptedEventsHitABar ==
    [][(/\ ret'.op \in {"press", "move"}
        /\ ret'.accepted
        /\ market_data.loaded
        /\ Len(market_data.bars) > 0)
       => /\ RatLe(RatInt(0), x_to_time(ranges, RatInt(ret'.x)))
          /\ RatLe(x_to_time(ranges, RatInt(ret'.x)), RatInt(Len(market_data.bars) - 1))
          /\ current_stroke'[Len(current_stroke')][1] \in BarTimestamps(market_data)]_vars

\* A pointer-move at the right edge of the chart rectangle stored the
\* timestamp of the last bar of the loaded series.
C30_Witness ==
    /\ ret.op = "move" /\ ret.accepted
    /\ ret.x = chart_width - margin_right
    /\ market_data.loaded
    /\ current_stroke # <<>>
    /\ current_stroke[Len(current_stroke)][1]
          = Strftime(market_data.bars[Len(market_data.bars)].datetime)

-----------------------------------------------------------------------------
(* The preview redraw on series and pattern sets drawn from bounded sets.   *)

\* canvas.load_patterns(strokes): replaces the completed strokes and redraws.
load_patterns(strokes) ==
    /\ all_strokes' = strokes
    /\ ranges' = plot_market_data(market_data, ranges)
    /\ preview' = update_drawing_preview(market_data, ranges', all_strokes', current_stroke)
    /\ ret' = [op |-> "load_patterns"]
    /\ calls' = <<>>
    /\ aliases' = {}
    /\ UNCHANGED <<drawing_enabled, is_drawing, current_stroke, market_data,
                   pattern_strokes, csvfile, sample_strokes, handler, requests>>

\* Bar timestamps, in any order and with repeats.
PreviewBarTimes == {0, 60, 120}

SeriesOf(ts) ==
    [loaded |-> TRUE,
     bars |-> [i \in 1..Len(ts) |-> [datetime |-> ts[i], close |-> RatInt(100 + 10 * i)]]]

PreviewSeries == {SeriesOf(ts) : ts \in SeqsUpTo(PreviewBarTimes, MaxBars) \ {<<>>}}

\* Stroke timestamps (whole minutes, as '%m/%d/%Y %H:%M' writes them).
QueryTimes == {0, 60, 120, 180}

PreviewPoints == {<<Strftime(t), PyFloat(RatInt(110))>> : t \in QueryTimes}

\* Pattern sets of one two-point stroke.
PreviewPatterns == {<<<<a, b>>>> : a \in PreviewPoints, b \in PreviewPoints}

NextPreview ==
    \/ \E series \in PreviewSeries : load_market_data(series)
    \/ \E strokes \in PreviewPatterns : load_patterns(strokes)
    \/ clear_patterns

SpecPreview == Init /\ [][NextPreview]_vars

TimeDiff(md, i, dt) == Abs(dt - md.bars[i + 1].datetime)

\* i is the smallest index among those whose bar is nearest to dt.
FirstNearest(md, i, dt) ==
    /\ i \in 0..(Len(md.bars) - 1)
    /\ \A k \in 0..(Len(md.bars) - 1) : TimeDiff(md, i, dt) <= TimeDiff(md, k, dt)
    /\ \A k \in 0..(i - 1) : TimeDiff(md, k, dt) > TimeDiff(md, i, dt)

\* C6: for the loaded (non-empty) series and every query timestamp the
\* nearest-time lookup returns an index whose bar minimises the absolute time
\* difference, the smallest such index on ties; and every point of the
\* redrawn strokes is placed at the x of that index.
C6_NearestIndexFirstMinimum ==
    market_data.loaded =>
      /\ \A dt \in QueryTimes : FirstNearest(market_data, nearest_index(market_data, dt), dt)
      /\ \A k \in 1..Len(preview) : \A j \in 1..Len(preview[k].points) :
           \E i \in 0..(Len(market_data.bars) - 1) :
             /\ FirstNearest(market_data, i, Strptime(all_strokes[k][j][1]))
             /\ preview[k].points[j][1] = time_to_x(ranges, RatInt(i))

\* A stroke was redrawn whose first point is equally near to two different
\* bars of an unsorted series, and it is placed at the earlier one's x, which
\* differs from the later one's.
C6_Witness ==
    /\ market_data.loaded
    /\ ret.op = "load_patterns"
    /\ Len(preview) = 1
    /\ \E i, k \in 0..(Len(market_data.bars) - 1) :
         LET dt == Strptime(all_strokes[1][1][1])
         IN  /\ i < k
             /\ FirstNearest(market_data, i, dt)
             /\ TimeDiff(market_data, k, dt) = TimeDiff(market_data, i, dt)
             /\ market_data.bars[i + 1].datetime > market_data.bars[k + 1].datetime
             /\ preview[1].points[1][1] = time_to_x(ranges, RatInt(i))
             /\ preview[1].points[1][1] # time_to_x(ranges, RatInt(k))


-----------------------------------------------------------------------------
(* Specification SpecImport: a canvas with a DataHandler attached holds a   *)
(* PatternSet, a pattern file (well-formed or not) is on disk, and it is    *)
(* imported through the canvas or through the handler.                      *)

\* canvas.import_patterns(filename): the handler's import, then
\* load_patterns(strokes); an exception of the import propagates before
\* load_patterns is reached.
import_patterns ==
    LET r == import_pattern_from_csv(handler, csvfile, 0)
    IN  /\ ret' = [op |-> "import_patterns", ok |-> r.ok, strokes |-> r.strokes]
        /\ calls' = <<[fn |-> "import_pattern_from_csv", arg |-> <<>>]>>
        /\ pattern_strokes' = stored_after_import(pattern_strokes, r)
        /\ IF r.ok
           THEN /\ all_strokes' = r.strokes
                /\ ranges' = plot_market_data(market_data, ranges)
                /\ preview' = update_drawing_preview(market_data, ranges', all_strokes',
                                                     current_stroke)
           ELSE UNCHANGED <<all_strokes, ranges, preview>>
        /\ aliases' = {}
        /\ UNCHANGED <<drawing_enabled, is_drawing, current_stroke, market_data,
                       csvfile, sample_strokes, handler, requests>>

\* The cell DictReader gives for a column the row is too short to reach.
MissingCell == [k |-> "none"]

ImportTimeText == Strftime(0)

GoodModernRow(id) ==
    [stroke_id |-> PyStr(PyInt(id)), datetime |-> ImportTimeText, open |-> OnePriceText,
     high |-> OnePriceText, low |-> OnePriceText, close |-> OnePriceText,
     volume |-> PyStr(PyInt(0))]

\* Rows under the modern header: well-formed ones, one whose close is not a
\* number, and a short row (no cell from the close column on).
ImportModernRows ==
    {GoodModernRow(0), GoodModernRow(1),
     [GoodModernRow(0) EXCEPT !.close = JunkText],
     [GoodModernRow(0) EXCEPT !.close = MissingCell, !.volume = MissingCell]}

DropField(row, f) == [c \in (DOMAIN row) \ {f} |-> row[c]]

\* Files with the modern header, and files whose header lacks the close or the
\* datetime column.
ImportFiles ==
    {[header |-> ModernHeader, rows |-> r] : r \in SeqsUpTo(ImportModernRows, MaxRows)}
    \cup {[header |-> SelectSeq(ModernHeader, LAMBDA c : c # f),
           rows |-> [i \in 1..n |-> DropField(GoodModernRow(0), f)]]
            : f \in {"close", "datetime"}, n \in 1..MaxRows}
    \cup {NoFile}

\* The PatternSet held before the import: none, or one drawn stroke.
HeldPatterns ==
    {<<>>, <<<<<<Strftime(60), PyFloat(RatInt(110))>>, <<Strftime(0), PyFloat(RatInt(110))>>>>>>}

InitImport ==
    /\ drawing_enabled = FALSE
    /\ is_drawing = FALSE
    /\ current_stroke = <<>>
    /\ all_strokes \in HeldPatterns
    /\ pattern_strokes = all_strokes
    /\ market_data \in {None} \cup LoadableSeries
    /\ ranges = plot_market_data(market_data, InitialRanges)
    /\ preview = update_drawing_preview(market_data, ranges, all_strokes, current_stroke)
    /\ csvfile \in ImportFiles
    /\ sample_strokes = <<>>
    /\ ret = NoRet
    /\ calls = <<>>
    /\ aliases = {}
    /\ handler = "DataHandler"
    /\ requests = <<>>

NextImport ==
    \/ import_patterns
    \/ ImportFile("DataHandler", 0)
    \/ clear_patterns

SpecImport == InitImport /\ [][NextImport]_vars

\* Some row of the file lacks the datetime or close field, or its close is
\* not a number.
MalformedFile(file) ==
    /\ file # NoFile
    /\ \E i \in 1..Len(file.rows) :
         \/ "datetime" \notin DOMAIN file.rows[i]
         \/ "close" \notin DOMAIN file.rows[i]
         \/ file.rows[i].close.k # "num"

\* C13: an import of a file with a row that lacks the datetime or close field,
\* or whose close is not a number, raises, and leaves the handler's
\* pattern_strokes and the canvas's completed PatternSet as they were.
C13_FailedImportChangesNothing ==
    [][(ret'.op \in {"import_patterns", "import"} /\ MalformedFile(csvfile))
       => /\ ~ret'.ok
          /\ pattern_strokes' = pattern_strokes
          /\ all_strokes' = all_strokes]_vars

\* An import through the canvas failed on the second row of its file, after
\* a well-formed first row, while a stroke was held; the stroke is still
\* there.
C13_Witness ==
    /\ ret.op = "import_patterns"
    /\ ~ret.ok
    /\ MalformedFile(csvfile)
    /\ Len(csvfile.rows) >= 2
    /\ csvfile.rows[1] = GoodModernRow(0)
    /\ all_strokes \in HeldPatterns \ {<<>>}
    /\ pattern_strokes = all_strokes


-----------------------------------------------------------------------------
(* Specification SpecMapper: the four mapping functions applied to prices   *)
(* and indices under the initial ranges and the ranges of loaded series.    *)

\* Mutant of map_back_price: the bottom margin is taken for the top one.
map_back_price_top(r, y) ==
    FAdd(r.min_price,
         FMul(FDiv(FSub(RatInt(chart_height - margin_top), y),
                   RatInt(chart_height - margin_top - margin_bottom)),
              FSub(r.max_price, r.min_price)))

\* The price the canvas reads back from a y coordinate.
map_back_price(r, y) == y_to_price(r, y)

MapperPrices ==
    {RatInt(110), RatInt(115), RatInt(500), FloatRound(Rat(1103, 10)),
     FloatRound(Rat(1000, 3))}

MapperIndices == {0, 1, 2, 3, 37, 100}

\* y_to_price(price_to_y(price))
price_round_trip(price) ==
    /\ ret' = [op |-> "price_round_trip", arg |-> price,
               pixel |-> price_to_y(ranges, price),
               back |-> map_back_price(ranges, price_to_y(ranges, price))]
    /\ UNCHANGED <<drawing_enabled, is_drawing, current_stroke, all_strokes, market_data,
                   pattern_strokes, csvfile, sample_strokes, calls, ranges, preview, aliases,
                   handler, requests>>

\* x_to_time(time_to_x(i))
time_round_trip(i) ==
    /\ ret' = [op |-> "time_round_trip", arg |-> RatInt(i),
               pixel |-> time_to_x(ranges, RatInt(i)),
               back |-> x_to_time(ranges, time_to_x(ranges, RatInt(i)))]
    /\ UNCHANGED <<drawing_enabled, is_drawing, current_stroke, all_strokes, market_data,
                   pattern_strokes, csvfile, sample_strokes, calls, ranges, preview, aliases,
                   handler, requests>>

\* x_to_time(x) and y_to_price(y) of a pixel.
pixel_lookup(x, y) ==
    /\ ret' = [op |-> "pixel_lookup", x |-> x, y |-> y,
               time |-> x_to_time(ranges, RatInt(x)),
               price |-> y_to_price(ranges, RatInt(y))]
    /\ UNCHANGED <<drawing_enabled, is_drawing, current_stroke, all_strokes, market_data,
                   pattern_strokes, csvfile, sample_strokes, calls, ranges, preview, aliases,
                   handler, requests>>

\* Pixels inside the chart rectangle, on its corners and outside it.
MapperPixels == {<<0, 0>>, <<60, 40>>, <<420, 280>>, <<780, 520>>, <<800, 560>>}

\* Two bars with the same close.
FlatSeries ==
    [loaded |-> TRUE,
     bars |-> <<[datetime |-> 0, close |-> RatInt(100)],
                [datetime |-> 60, close |-> RatInt(100)]>>]

NextMapper ==
    \/ \E series \in PreviewSeries \cup {FlatSeries} : load_market_data(series)
    \/ \E price \in MapperPrices : price_round_trip(price)
    \/ \E i \in MapperIndices : time_round_trip(i)
    \/ \E p \in MapperPixels : pixel_lookup(p[1], p[2])

SpecMapper == Init /\ [][NextMapper]_vars

NonDegenerate(r) ==
    /\ r.max_price # r.min_price
    /\ r.max_time # r.min_time
    /\ chart_width - margin_left - margin_right # 0
    /\ chart_height - margin_top - margin_bottom # 0

RatAbs(a) == <<Abs(a[1]), a[2]>>

\* Eight units in the last place of a float of magnitude a.
RoundingSlack(a) == RatDiv(RatMul(RatInt(8), a), RatInt(TwoToMantissa))

\* C15 (as stated): under non-degenerate ranges y_to_price(price_to_y(p)) = p
\* and x_to_time(time_to_x(i)) = i.
C15_MapperExactInverse ==
    (ret.op \in {"price_round_trip", "time_round_trip"} /\ NonDegenerate(ranges))
        => ret.back = ret.arg

\* C15 (amended): under non-degenerate ranges the round trips return the
\* input up to floating-point rounding: the results differ from p and i by at
\* most a few units in the last place of the largest magnitude involved (the
\* range bounds and the input).
C15_MapperInverseWithinRounding ==
    (ret.op \in {"price_round_trip", "time_round_trip"} /\ NonDegenerate(ranges))
        => LET lo == IF ret.op = "price_round_trip" THEN ranges.min_price
                     ELSE RatInt(ranges.min_time)
               hi == IF ret.op = "price_round_trip" THEN ranges.max_price
                     ELSE RatInt(ranges.max_time)
               magnitude == RatAdd(RatAdd(RatAbs(lo), RatAbs(hi)), RatAbs(ret.arg))
           IN  RatLe(RatAbs(RatSub(ret.back, ret.arg)), RoundingSlack(magnitude))

\* Under the initial ranges index 3 came back from its x coordinate slightly
\* below 3, within the rounding slack.
C15_Witness ==
    /\ ret.op = "time_round_trip"
    /\ NonDegenerate(ranges)
    /\ ret.arg = RatInt(3)
    /\ RatLt(ret.back, ret.arg)
    /\ RatLt(RatInt(2), ret.back)

\* The divisors of the four mappings under ranges r: none where the guard
\* returns before the division.
time_to_x_divisors(r) ==
    IF r.max_time = r.min_time THEN {} ELSE {RatInt(r.max_time - r.min_time)}
price_to_y_divisors(r) ==
    IF r.max_price = r.min_price THEN {} ELSE {FSub(r.max_price, r.min_price)}
x_to_time_divisors(r) ==
    IF chart_width - margin_left - margin_right = 0 THEN {}
    ELSE {RatInt(chart_width - margin_left - margin_right)}
y_to_price_divisors(r) ==
    IF chart_height - margin_top - margin_bottom = 0 THEN {}
    ELSE {RatInt(chart_height - margin_top - margin_bottom)}

\* C24: no mapping divides by zero, and under degenerate ranges each returns
\* its fallback: price_to_y the top margin when max_price = min_price,
\* time_to_x the left margin when max_time = min_time, and in those cases
\* y_to_price returns min_price and x_to_time returns min_time for every
\* pixel.
C24_DegenerateRanges ==
    /\ \A d \in time_to_x_divisors(ranges) \cup price_to_y_divisors(ranges)
                \cup x_to_time_divisors(ranges) \cup y_to_price_divisors(ranges) :
          d[1] # 0
    /\ (ret.op = "price_round_trip" /\ ranges.max_price = ranges.min_price)
          => ret.pixel = RatInt(margin_top)
    /\ (ret.op = "time_round_trip" /\ ranges.max_time = ranges.min_time)
          => ret.pixel = RatInt(margin_left)
    /\ (ret.op = "pixel_lookup" /\ ranges.max_price = ranges.min_price)
          => ret.price = ranges.min_price
    /\ (ret.op = "pixel_lookup" /\ ranges.max_time = ranges.min_time)
          => ret.time = RatInt(ranges.min_time)

\* A flat two-bar series is loaded (price range degenerate, time range not)
\* and a price was mapped to the top margin.
C24_Witness ==
    /\ ret.op = "price_round_trip"
    /\ ranges.max_price = ranges.min_price
    /\ ranges.max_time # ranges.min_time
    /\ ret.arg # ranges.min_price
    /\ ret.pixel = RatInt(margin_top)
    /\ ret.back = ranges.min_price

-----------------------------------------------------------------------------
(* Specification SpecAlias: a caller holds a PatternSet (sample_strokes),   *)
(* hands it to canvas.load_patterns and goes on changing it.                *)

\* list.copy(): a new outer list whose elements are the same stroke objects.
shallow_copy_aliases(strokes) == {<<k, k>> : k \in 1..Len(strokes)}

\* canvas.load_patterns(S) for the list S the caller keeps.
load_held_patterns ==
    /\ all_strokes' = sample_strokes
    /\ aliases' = shallow_copy_aliases(sample_strokes)
    /\ ranges' = plot_market_data(market_data, ranges)
    /\ preview' = update_drawing_preview(market_data, ranges', all_strokes', current_stroke)
    /\ ret' = [op |-> "load_patterns"]
    /\ calls' = <<>>
    /\ UNCHANGED <<drawing_enabled, is_drawing, current_stroke, market_data,
                   pattern_strokes, csvfile, sample_strokes, handler, requests>>

\* S.append(stroke) by the caller: the canvas has its own outer list.
caller_append_stroke(stroke) ==
    /\ Len(sample_strokes) < MaxSampleStrokes
    /\ PointCount(sample_strokes) + Len(stroke) <= MaxSamplePoints
    /\ sample_strokes' = Append(sample_strokes, stroke)
    /\ ret' = [op |-> "caller_append_stroke"]
    /\ calls' = <<>>
    /\ UNCHANGED <<drawing_enabled, is_drawing, current_stroke, all_strokes, market_data,
                   pattern_strokes, csvfile, ranges, preview, aliases,
                   handler, requests>>

\* S[j].append(point) by the caller: every list that is the same object as
\* S[j] shows the new point.
caller_append_point(j, point) ==
    /\ j \in 1..Len(sample_strokes)
    /\ PointCount(sample_strokes) + 1 <= MaxSamplePoints
    /\ sample_strokes' = [sample_strokes EXCEPT ![j] = Append(@, point)]
    /\ all_strokes' = [i \in 1..Len(all_strokes) |->
                         IF <<i, j>> \in aliases THEN Append(all_strokes[i], point)
                         ELSE all_strokes[i]]
    /\ ret' = [op |-> "caller_append_point"]
    /\ calls' = <<>>
    /\ UNCHANGED <<drawing_enabled, is_drawing, current_stroke, market_data,
                   pattern_strokes, csvfile, ranges, preview, aliases,
                   handler, requests>>

CallerPoints == {<<Strftime(t), PyFloat(RatInt(110))>> : t \in {0, 60}}
CallerStrokes == {<<a, b>> : a \in CallerPoints, b \in CallerPoints}

InitAlias ==
    /\ InitCommon
    /\ csvfile = NoFile

NextAlias ==
    \/ load_held_patterns
    \/ \E stroke \in CallerStrokes : caller_append_stroke(stroke)
    \/ \E j \in 1..MaxSampleStrokes, point \in CallerPoints : caller_append_point(j, point)
    \/ \E series \in LoadableSeries : load_market_data(series)
    \/ clear_patterns

SpecAlias == InitAlias /\ [][NextAlias]_vars

\* C16: load_patterns(S) makes the canvas's PatternSet equal to S and leaves
\* the market series alone, and no later change made through S (a stroke
\* added to it, a point added to one of its strokes) changes the canvas's
\* PatternSet.
C16_LoadPatternsDeepCopy ==
    /\ [][ret'.op = "load_patterns"
            => (all_strokes' = sample_strokes /\ market_data' = market_data)]_vars
    /\ [][ret'.op \in {"caller_append_stroke", "caller_append_point"}
            => all_strokes' = all_strokes]_vars

\* After load_patterns(S) with a two-point stroke the caller appended a point
\* to S[1], and the canvas's first stroke has three points.
C16_SharedStrokeReached ==
    /\ ret.op = "caller_append_point"
    /\ Len(all_strokes) >= 1
    /\ Len(all_strokes[1]) = 3
    /\ all_strokes[1] = sample_strokes[1]


-----------------------------------------------------------------------------
(* Specification SpecLoad: load_market_data of the three data handlers on   *)
(* market files that are well-formed or not.  csvfile is the market file.   *)

PriceColumns == {"open", "high", "low", "close"}

\* The body of the csv loop of UltraSimpleDataHandler / WebDataHandler: does
\* the row parse, and the data_point appended for it.
csv_row_parses(row) ==
    /\ CanStrptime(row.datetime, "mdY_HM")
    /\ \A c \in PriceColumns : CanFloat(row[c])
    /\ CanInt(row.volume)

\* WebDataHandler keeps dt.strftime('%Y-%m-%d %H:%M:%S'), UltraSimpleDataHandler
\* the datetime itself.
data_point(h, row) ==
    [datetime |-> IF h = "Web" THEN DtText("Ymd_HMS", TRUE, Strptime(row.datetime))
                  ELSE Strptime(row.datetime),
     open |-> FloatOf(row.open).val, high |-> FloatOf(row.high).val,
     low |-> FloatOf(row.low).val, close |-> FloatOf(row.close).val,
     volume |-> IntOf(row.volume)]

\* "for row in reader: ... self.market_data.append(data_point)": the list
\* after the loop, and whether a row raised (the loop stops there).
RECURSIVE csv_load_loop(_, _, _, _)
csv_load_loop(h, rows, i, acc) ==
    IF i > Len(rows) THEN [ok |-> TRUE, bars |-> acc]
    ELSE IF ~csv_row_parses(rows[i]) THEN [ok |-> FALSE, bars |-> acc]
    ELSE csv_load_loop(h, rows, i + 1, Append(acc, data_point(h, rows[i])))

\* UltraSimpleDataHandler / WebDataHandler.load_market_data: self.market_data
\* is set to [] before the file is opened and filled row by row.
csv_load_market_data(h, file, old) ==
    IF file = NoFile THEN [ok |-> FALSE, md |-> [loaded |-> TRUE, bars |-> <<>>]]
    ELSE LET r == csv_load_loop(h, file.rows, 1, <<>>)
         IN  [ok |-> r.ok, md |-> [loaded |-> TRUE, bars |-> r.bars]]

\* A column as pandas.read_csv types it: numbers when every cell is numeric,
\* the cell texts otherwise.
frame_cell(rows, c, i) ==
    IF \A k \in 1..Len(rows) : CanFloat(rows[k][c]) THEN FloatOf(rows[i][c]).val
    ELSE rows[i][c]

\* DataHandler.load_market_data: the frame is built and its datetime column
\* converted before self.market_data is assigned.
pandas_load_market_data(file, old) ==
    IF file = NoFile THEN [ok |-> FALSE, md |-> old]
    ELSE IF \E i \in 1..Len(file.rows) : ~CanStrptime(file.rows[i].datetime, "mdY_HM")
    THEN [ok |-> FALSE, md |-> old]
    ELSE [ok |-> TRUE,
          md |-> [loaded |-> TRUE,
                  bars |-> [i \in 1..Len(file.rows) |->
                              [datetime |-> Strptime(file.rows[i].datetime),
                               open |-> frame_cell(file.rows, "open", i),
                               high |-> frame_cell(file.rows, "high", i),
                               low |-> frame_cell(file.rows, "low", i),
                               close |-> frame_cell(file.rows, "close", i),
                               volume |-> frame_cell(file.rows, "volume", i)]]]]

handler_load(h, file, old) ==
    IF h = "DataHandler" THEN pandas_load_market_data(file, old)
    ELSE csv_load_market_data(h, file, old)

\* data_handler.load_market_data(filepath)
handler_load_market_data ==
    LET r == handler_load(handler, csvfile, market_data)
    IN  /\ market_data' = r.md
        /\ ret' = [op |-> "handler_load_market_data", ok |-> r.ok]
        /\ UNCHANGED <<drawing_enabled, is_drawing, current_stroke, all_strokes,
                       pattern_strokes, csvfile, sample_strokes, calls, ranges, preview,
                       aliases, handler, requests>>

\* The file at the path is replaced by another one.
market_file_replaced(file) ==
    /\ csvfile' = file
    /\ ret' = [op |-> "market_file_replaced"]
    /\ UNCHANGED <<drawing_enabled, is_drawing, current_stroke, all_strokes, market_data,
                   pattern_strokes, sample_strokes, calls, ranges, preview, aliases,
                   handler, requests>>

MarketRow(d, close) ==
    [datetime |-> d, open |-> OnePriceText, high |-> OnePriceText, low |-> OnePriceText,
     close |-> close, volume |-> PyStr(PyInt(0))]

\* Market rows: two well-formed ones, one with an unparsable datetime and one
\* whose close is not a number.
MarketRows ==
    {MarketRow(Strftime(0), OnePriceText), MarketRow(Strftime(60), OnePriceText),
     MarketRow(JunkText, OnePriceText), MarketRow(Strftime(60), JunkText)}

MarketHeader == <<"datetime", "open", "high", "low", "close", "volume">>

MarketFiles ==
    {[header |-> MarketHeader, rows |-> r] : r \in SeqsUpTo(MarketRows, MaxRows)}
    \cup {NoFile}

\* __init__: DataHandler starts with market_data = None, the csv handlers
\* with market_data = [].
InitLoad ==
    /\ drawing_enabled = FALSE
    /\ is_drawing = FALSE
    /\ current_stroke = <<>>
    /\ all_strokes = <<>>
    /\ handler \in Handlers
    /\ requests = <<>>
    /\ market_data = IF handler = "DataHandler" THEN None
                     ELSE [loaded |-> TRUE, bars |-> <<>>]
    /\ pattern_strokes = <<>>
    /\ sample_strokes = <<>>
    /\ csvfile \in {NoFile, [header |-> MarketHeader, rows |-> <<>>]}
    /\ ret = NoRet
    /\ calls = <<>>
    /\ ranges = InitialRanges
    /\ preview = <<>>
    /\ aliases = {}

NextLoad ==
    \/ handler_load_market_data
    \/ \E file \in MarketFiles : market_file_replaced(file)

SpecLoad == InitLoad /\ [][NextLoad]_vars

\* The instant a stored bar stands for.
BarInstant(bar) == IF handler = "Web" THEN bar.datetime.t ELSE bar.datetime

\* The series holds one bar per row of the file, in row order.
CompleteSeries(md, file) ==
    /\ md.loaded
    /\ Len(md.bars) = Len(file.rows)
    /\ \A i \in 1..Len(file.rows) :
         /\ BarInstant(md.bars[i]) = file.rows[i].datetime.t
         /\ handler # "DataHandler" => md.bars[i].close = file.rows[i].close.val

\* C18: after load_market_data the handler's series is the complete series
\* of the new file when the load returned, and exactly the series it held
\* before when the load raised.
C18_LoadReplacesWholesale ==
    [][ret'.op = "handler_load_market_data"
         => IF ret'.ok THEN CompleteSeries(market_data', csvfile)
            ELSE market_data' = market_data]_vars

\* UltraSimpleDataHandler held a two-bar series, the load of a file whose
\* second row is malformed raised, and the handler is left with one bar.
C18_PartialSeriesReached ==
    /\ handler = "UltraSimple"
    /\ ret.op = "handler_load_market_data" /\ ~ret.ok
    /\ csvfile # NoFile
    /\ Len(csvfile.rows) >= 2
    /\ Len(market_data.bars) = 1



-----------------------------------------------------------------------------
(* Specification SpecSession: a desktop variant (SimpleChartCanvas with     *)
(* DataHandler, or UltraSimpleChartCanvas with UltraSimpleDataHandler) has  *)
(* a series of two-minute bars loaded and drawing enabled; the user draws,  *)
(* clears, exports to the pattern file and imports it again.                *)

\* handler.export_pattern_to_csv(strokes, filename) of the attached handler.
handler_export(h, strokes) ==
    IF h = "DataHandler" THEN DataHandler_export_pattern_to_csv(strokes)
    ELSE Legacy_export_pattern_to_csv(strokes)

\* canvas.export_patterns(filename): "if self.data_handler and
\* self.all_strokes" the handler's export, else False.
export_patterns ==
    /\ IF all_strokes # <<>>
       THEN LET r == handler_export(handler, all_strokes)
            IN  /\ csvfile' = r.file
                /\ ret' = [op |-> "export_patterns", ok |-> r.ok]
       ELSE /\ ret' = [op |-> "export_patterns", ok |-> FALSE]
            /\ UNCHANGED csvfile
    /\ calls' = <<>>
    /\ UNCHANGED <<drawing_enabled, is_drawing, current_stroke, all_strokes,
                   market_data, pattern_strokes, sample_strokes, ranges, preview,
                   aliases, handler, requests>>

\* Two bars two minutes apart.
SessionSeries == SeriesOf(<<0, 120>>)

DesktopHandlers == {"DataHandler", "UltraSimple"}

InitSession ==
    /\ handler \in DesktopHandlers
    /\ requests = <<>>
    /\ drawing_enabled = TRUE
    /\ is_drawing = FALSE
    /\ current_stroke = <<>>
    /\ all_strokes = <<>>
    /\ pattern_strokes = <<>>
    /\ market_data = SessionSeries
    /\ ranges = plot_market_data(market_data, InitialRanges)
    /\ preview = <<>>
    /\ csvfile = NoFile
    /\ sample_strokes = <<>>
    /\ ret = NoRet
    /\ calls = <<>>
    /\ aliases = {}

\* Pointer positions of a session: the left and the right edge of the chart
\* rectangle (the first and the second bar).
SessionPositions == {<<60, 280>>, <<780, 280>>}

\* The strokes of a session hold at most MaxSessionPoints points in all.
SessionRoom(n) == PointCount(all_strokes) + n <= MaxSessionPoints

FileRows == IF csvfile = NoFile THEN 0 ELSE Len(csvfile.rows)

NextSession ==
    \/ /\ SessionRoom(1)
       /\ \E p \in SessionPositions, now \in ClockTimes : on_mouse_press(p[1], p[2], now)
    \/ /\ SessionRoom(Len(current_stroke) + 1)
       /\ \E p \in SessionPositions, now \in ClockTimes : on_mouse_move(p[1], p[2], now)
    \/ \E p \in SessionPositions : on_mouse_release(p[1], p[2])
    \/ clear_patterns
    \/ export_patterns
    \/ /\ FileRows + Len(current_stroke) <= MaxSessionPoints
       /\ import_patterns

SpecSession == InitSession /\ [][NextSession]_vars

AtLeastTwoPoints(strokes) == \A k \in 1..Len(strokes) : Len(strokes[k]) >= 2

\* C21: every stroke of the PatternSet, on the canvas and in the handler, has
\* at least two points in every state reached by pointer events,
\* clear_patterns, export and import of the exported file.
C21_NoOnePointStrokeRestored ==
    AtLeastTwoPoints(all_strokes) /\ AtLeastTwoPoints(pattern_strokes)

\* The ultra-simple variant imported its own export of one two-point stroke
\* drawn from the first bar to the second and holds two one-point strokes.
C21_OnePointStrokeRestored ==
    /\ handler = "UltraSimple"
    /\ ret.op = "import_patterns" /\ ret.ok
    /\ Len(all_strokes) = 2
    /\ Len(all_strokes[1]) = 1
    /\ Len(all_strokes[2]) = 1
    /\ csvfile = Legacy_export_pattern_to_csv(
                     <<<<all_strokes[1][1], all_strokes[2][1]>>>>).file


-----------------------------------------------------------------------------
(* Specification SpecCanvasImport: a desktop variant with a series loaded   *)
(* and drawing enabled; a pattern file (well-formed, malformed or absent)   *)
(* is on disk; the user draws, clears and imports the file.                 *)

\* Files of at most two rows under the modern header: no row at all, rows of
\* stroke 0 and stroke 1, and rows whose close is not a number.
CanvasImportRows ==
    {GoodModernRow(0), GoodModernRow(1), [GoodModernRow(0) EXCEPT !.close = JunkText]}

CanvasImportFiles ==
    {[header |-> ModernHeader, rows |-> r] : r \in SeqsUpTo(CanvasImportRows, 2)}
    \cup {NoFile}

InitCanvasImport ==
    /\ handler \in DesktopHandlers
    /\ requests = <<>>
    /\ drawing_enabled = TRUE
    /\ is_drawing = FALSE
    /\ current_stroke = <<>>
    /\ all_strokes = <<>>
    /\ pattern_strokes = <<>>
    /\ market_data = SessionSeries
    /\ ranges = plot_market_data(market_data, InitialRanges)
    /\ preview = <<>>
    /\ csvfile \in CanvasImportFiles
    /\ sample_strokes = <<>>
    /\ ret = NoRet
    /\ calls = <<>>
    /\ aliases = {}

NextCanvasImport ==
    \/ \E p \in SessionPositions, now \in ClockTimes : on_mouse_press(p[1], p[2], now)
    \/ \E p \in SessionPositions, now \in ClockTimes : on_mouse_move(p[1], p[2], now)
    \/ \E p \in SessionPositions : on_mouse_release(p[1], p[2])
    \/ clear_patterns
    \/ /\ FileRows + Len(current_stroke) <= MaxTotalPoints
       /\ import_patterns

SpecCanvasImport == InitCanvasImport /\ [][NextCanvasImport]_vars

\* C22: neither the canvas's completed PatternSet nor the handler's stroke
\* list contains an empty stroke, in every state reached by pointer events,
\* clear_patterns and imports.
C22_NoEmptyStroke ==
    NoEmptyStroke(all_strokes) /\ NoEmptyStroke(pattern_strokes)

\* A file of two one-row strokes was imported and a drawn stroke was
\* completed after it.
C22_Witness ==
    /\ ret.op = "release" /\ ret.accepted /\ ret.points = 2
    /\ handler = "DataHandler"
    /\ Len(all_strokes) = 3
    /\ Len(all_strokes[1]) = 1
    /\ Len(all_strokes[2]) = 1
    /\ Len(all_strokes[3]) = 2
    /\ Len(pattern_strokes) = 3

\* C23: the handler's pattern_strokes equals the canvas's completed
\* PatternSet, stroke by stroke, in every state reached by pointer events,
\* clear_patterns and import_patterns, successful or failed.
C23_HandlerMirrorsCanvas == pattern_strokes = all_strokes

\* An import failed while a drawn stroke was held by both.
C23_Witness ==
    /\ ret.op = "import_patterns" /\ ~ret.ok
    /\ Len(all_strokes) = 1
    /\ Len(all_strokes[1]) = 2
    /\ pattern_strokes = all_strokes


-----------------------------------------------------------------------------
(* Specification SpecWeb: the Flask application handles up to               *)
(* MaxRequests save_pattern / load_pattern requests at a time, each on its  *)
(* own thread.  Every request goes through the one file temp_pattern.csv    *)
(* (csvfile) and the one global data_handler; a step is one file operation  *)
(* of a request.                                                            *)

RequestIds == 1..MaxRequests

IdleRequest == [kind |-> "none", pc |-> "idle"]

\* The pattern files a client uploads: one stroke of one point, and two
\* strokes (five minutes apart) of one point each.
WebUploads ==
    {[header |-> LegacyHeader, rows |-> rows] :
        rows \in {<<Legacy_export_row(<<Strftime(0), PyFloat(RatInt(110))>>)>>,
                  <<Legacy_export_row(<<Strftime(0), PyFloat(RatInt(110))>>),
                    Legacy_export_row(<<Strftime(300), PyFloat(RatInt(120))>>)>>}}

\* The patterns a client posts: none, one stroke of two points, two strokes.
WebPatterns ==
    {<<>>,
     <<<<<<Strftime(0), PyFloat(RatInt(110))>>, <<Strftime(60), PyFloat(RatInt(115))>>>>>>,
     <<<<<<Strftime(0), PyFloat(RatInt(110))>>>>, <<<<Strftime(60), PyFloat(RatInt(115))>>>>>>}

WebUnchanged ==
    UNCHANGED <<drawing_enabled, is_drawing, current_stroke, all_strokes, market_data,
                pattern_strokes, sample_strokes, ret, calls, ranges, preview, aliases,
                handler>>

\* The response of a request: jsonify({'error': ...}) or the success body.
ErrorResponse == [ok |-> FALSE]

\* A POST to /api/load_pattern arrives with an uploaded file.
receive_load_pattern(id, upload) ==
    /\ requests[id].pc \in {"idle", "done"}
    /\ requests' = [requests EXCEPT ![id] =
                        [kind |-> "load_pattern", pc |-> "save", upload |-> upload]]
    /\ UNCHANGED csvfile
    /\ WebUnchanged

\* A POST to /api/save_pattern arrives with a pattern; "if not pattern_data"
\* answers 400 at once.
receive_save_pattern(id, pattern) ==
    /\ requests[id].pc \in {"idle", "done"}
    /\ requests' = [requests EXCEPT ![id] =
                        IF pattern = <<>>
                        THEN [kind |-> "save_pattern", pc |-> "done", pattern |-> pattern,
                              response |-> ErrorResponse]
                        ELSE [kind |-> "save_pattern", pc |-> "export",
                              pattern |-> pattern]]
    /\ UNCHANGED csvfile
    /\ WebUnchanged

\* load_pattern: file.save('temp_pattern.csv')
load_pattern_save(id) ==
    /\ requests[id].kind = "load_pattern" /\ requests[id].pc = "save"
    /\ csvfile' = requests[id].upload
    /\ requests' = [requests EXCEPT ![id].pc = "import"]
    /\ WebUnchanged

\* load_pattern: strokes = data_handler.import_pattern_from_csv(temp_filename);
\* an exception answers 500.
load_pattern_import(id, now) ==
    /\ requests[id].kind = "load_pattern" /\ requests[id].pc = "import"
    /\ LET r == import_pattern_from_csv("Web", csvfile, now)
       IN  requests' = [requests EXCEPT ![id] =
                IF r.ok
                THEN [kind |-> "load_pattern", pc |-> "remove",
                      upload |-> requests[id].upload, strokes |-> r.strokes, now |-> now]
                ELSE [kind |-> "load_pattern", pc |-> "done",
                      upload |-> requests[id].upload, response |-> ErrorResponse]]
    /\ UNCHANGED csvfile
    /\ WebUnchanged

\* load_pattern: os.remove(temp_filename), then the success body; a file
\* that is no longer there raises FileNotFoundError, answered with 500.
load_pattern_remove(id) ==
    /\ requests[id].kind = "load_pattern" /\ requests[id].pc = "remove"
    /\ requests' = [requests EXCEPT ![id] =
            [kind |-> "load_pattern", pc |-> "done", upload |-> requests[id].upload,
             now |-> requests[id].now,
             response |-> IF csvfile = NoFile THEN ErrorResponse
                          ELSE [ok |-> TRUE, pattern |-> requests[id].strokes]]]
    /\ csvfile' = NoFile
    /\ WebUnchanged

\* save_pattern: data_handler.export_pattern_to_csv(pattern_data, temp_filename)
save_pattern_export(id) ==
    /\ requests[id].kind = "save_pattern" /\ requests[id].pc = "export"
    /\ csvfile' = Legacy_export_pattern_to_csv(requests[id].pattern).file
    /\ requests' = [requests EXCEPT ![id].pc = "read"]
    /\ WebUnchanged

\* save_pattern: "with open(temp_filename, 'r') as f: content = f.read()"
save_pattern_read(id) ==
    /\ requests[id].kind = "save_pattern" /\ requests[id].pc = "read"
    /\ requests' = [requests EXCEPT ![id] =
            IF csvfile = NoFile
            THEN [kind |-> "save_pattern", pc |-> "done", pattern |-> requests[id].pattern,
                  response |-> ErrorResponse]
            ELSE [kind |-> "save_pattern", pc |-> "remove",
                  pattern |-> requests[id].pattern, content |-> csvfile]]
    /\ UNCHANGED csvfile
    /\ WebUnchanged

\* save_pattern: os.remove(temp_filename), then the success body.
save_pattern_remove(id) ==
    /\ requests[id].kind = "save_pattern" /\ requests[id].pc = "remove"
    /\ requests' = [requests EXCEPT ![id] =
            [kind |-> "save_pattern", pc |-> "done", pattern |-> requests[id].pattern,
             response |-> IF csvfile = NoFile THEN ErrorResponse
                          ELSE [ok |-> TRUE, content |-> requests[id].content]]]
    /\ csvfile' = NoFile
    /\ WebUnchanged

InitWeb ==
    /\ drawing_enabled = FALSE
    /\ is_drawing = FALSE
    /\ current_stroke = <<>>
    /\ all_strokes = <<>>
    /\ market_data = None
    /\ pattern_strokes = <<>>
    /\ sample_strokes = <<>>
    /\ ret = NoRet
    /\ calls = <<>>
    /\ ranges = InitialRanges
    /\ preview = <<>>
    /\ aliases = {}
    /\ handler = "Web"
    /\ csvfile = NoFile
    /\ requests = [id \in RequestIds |-> IdleRequest]

NextWeb ==
    \E id \in RequestIds :
        \/ \E upload \in WebUploads : receive_load_pattern(id, upload)
        \/ \E pattern \in WebPatterns : receive_save_pattern(id, pattern)
        \/ load_pattern_save(id)
        \/ \E now \in NowTimes : load_pattern_import(id, now)
        \/ load_pattern_remove(id)
        \/ save_pattern_export(id)
        \/ save_pattern_read(id)
        \/ save_pattern_remove(id)

SpecWeb == InitWeb /\ [][NextWeb]_vars

Answered(id, kind) ==
    /\ requests[id].kind = kind
    /\ requests[id].pc = "done"
    /\ requests[id].response.ok

\* C25: the pattern a load_pattern request returns is the decode of the file
\* uploaded in that request, and the content a save_pattern request returns
\* is the encode of the pattern posted in that request, whatever other
\* requests are in flight.
C25_RequestsShareNothing ==
    \A id \in RequestIds :
        /\ Answered(id, "load_pattern") =>
              requests[id].response.pattern =
                  import_pattern_from_csv("Web", requests[id].upload,
                                          requests[id].now).strokes
        /\ Answered(id, "save_pattern") =>
              requests[id].response.content =
                  Legacy_export_pattern_to_csv(requests[id].pattern).file

\* A load_pattern request that uploaded the one-stroke file answered with
\* the two strokes of the file another request had uploaded meanwhile.
C25_OtherUploadReturned ==
    \E id \in RequestIds :
        /\ Answered(id, "load_pattern")
        /\ Len(requests[id].upload.rows) = 1
        /\ Len(requests[id].response.pattern) = 2


-----------------------------------------------------------------------------
(* Specification SpecCanvas: the canvas from its construction, under every  *)
(* operation its owner can invoke once a series is loaded: pointer events,  *)
(* enable and disable of drawing, clear_patterns, load_patterns and         *)
(* import_patterns of a file on disk.                                       *)

\* A file of two one-row strokes, and a file whose only row has a close that
\* is not a number.
CanvasFiles ==
    {[header |-> ModernHeader, rows |-> <<GoodModernRow(0), GoodModernRow(1)>>],
     [header |-> ModernHeader, rows |-> <<[GoodModernRow(0) EXCEPT !.close = JunkText]>>]}

\* Pointer positions: the left and the right edge of the chart rectangle and
\* one position right of it.
CanvasPositions == SessionPositions \cup {<<790, 280>>}

InitCanvas ==
    /\ handler = "DataHandler"
    /\ requests = <<>>
    /\ drawing_enabled = FALSE
    /\ is_drawing = FALSE
    /\ current_stroke = <<>>
    /\ all_strokes = <<>>
    /\ pattern_strokes = <<>>
    /\ market_data = SessionSeries
    /\ ranges = plot_market_data(market_data, InitialRanges)
    /\ preview = <<>>
    /\ csvfile \in CanvasFiles
    /\ sample_strokes = <<>>
    /\ ret = NoRet
    /\ calls = <<>>
    /\ aliases = {}

\* Neither the canvas nor the handler holds more than MaxSessionPoints points
\* (load_patterns replaces the canvas's strokes only).
CanvasRoom(n) ==
    /\ SessionRoom(n)
    /\ PointCount(pattern_strokes) + n <= MaxSessionPoints

NextCanvas ==
    \/ /\ CanvasRoom(1)
       /\ \E p \in CanvasPositions, now \in ClockTimes : on_mouse_press(p[1], p[2], now)
    \/ /\ CanvasRoom(Len(current_stroke) + 1)
       /\ \E p \in CanvasPositions, now \in ClockTimes : on_mouse_move(p[1], p[2], now)
    \/ \E p \in CanvasPositions : on_mouse_release(p[1], p[2])
    \/ enable_drawing
    \/ disable_drawing
    \/ clear_patterns
    \/ \E strokes \in HeldPatterns :
          /\ PointCount(strokes) + Len(current_stroke) <= MaxSessionPoints
          /\ load_patterns(strokes)
    \/ /\ FileRows + Len(current_stroke) <= MaxSessionPoints
       /\ import_patterns

SpecCanvas == InitCanvas /\ [][NextCanvas]_vars

\* C26: whenever the recorder is Idle the current stroke is empty.
C26_IdleHasNoCurrentStroke == ~is_drawing => current_stroke = <<>>

\* The recorder is Idle again after a stroke of two points was completed.
C26_Witness ==
    /\ ~is_drawing
    /\ current_stroke = <<>>
    /\ ret.op = "release" /\ ret.accepted /\ ret.points = 2
    /\ Len(all_strokes) = 1

\* C27: whenever the recorder is Recording the current stroke holds at least
\* one point.
C27_RecordingHasAPoint == is_drawing => Len(current_stroke) >= 1

\* clear_patterns was called between a pointer-down and the pointer-up: the
\* recorder is Recording with no point.
C27_RecordingWithoutPoint ==
    /\ ret.op = "clear_patterns"
    /\ drawing_enabled
    /\ is_drawing
    /\ current_stroke = <<>>

\* C28: whenever drawing is disabled the recorder is Idle with an empty
\* current stroke, and after drawing is enabled again a pointer-move appends
\* nothing until a pointer-down has been accepted.
C28_DisabledIsIdle ==
    /\ [](~drawing_enabled => (~is_drawing /\ current_stroke = <<>>))
    /\ [][(ret.op = "enable_drawing" /\ ret'.op = "move")
             => current_stroke' = current_stroke]_vars

\* Drawing was disabled in the middle of a stroke: the recorder is still
\* Recording and holds the point of the pointer-down.
C28_StrokeSurvivesDisable ==
    /\ ret.op = "disable_drawing"
    /\ ~drawing_enabled
    /\ is_drawing
    /\ Len(current_stroke) = 1

=============================================================================
